---- MODULE Spec2Model ----
(***************************************************************************)
(* Training orchestration of MARVIN: the coordinating store (the unified   *)
(* store of lib/oscar-store.ts and the older lib/training-store.ts, which  *)
(* the pages still import), the training worker and the channel between    *)
(* them.  The store runs on the UI thread, the worker in its own event     *)
(* loop; both are modelled as interleaved atomic steps, one per handler    *)
(* run or per continuation of an awaited promise.                          *)
(* The model held by the store and by the hyperparameters page, and its    *)
(* disposal by TensorFlowModelMonitor, are modelled for SpecDispose.       *)
(* The worker's data preparation (SpecSplit), ShapeValidator (SpecShape,   *)
(* SpecOutputSize), the training page's handleAutofix (SpecAutofix) and    *)
(* the two model builders (SpecBuild) are each specified on their own,     *)
(* over inputs drawn from bounded sets.                                    *)
(* The extraction of activations is specified the same way                 *)
(* (SpecActivations).  SpecConfig, SpecSpeed, SpecData, SpecStop and       *)
(* SpecRestart are the store and the worker under particular commands:     *)
(* edits of the training configuration, the speed slider, datasets of any  *)
(* row counts, runs that end with a stop, and stops followed by starts.    *)
(* SpecOneEpoch is Spec with the configured epoch count held at one.       *)
(***************************************************************************)
EXTENDS Integers, Sequences, FiniteSets, TLC

\* ---------------------------------------------------------------- bounds
MaxCmds == 2        \* store commands issued in one behaviour of Spec
MaxControlCmds == 3 \* store commands issued in one behaviour of SpecControl
MaxDisposeCmds == 3 \* commands and page events in one behaviour of SpecDispose
MaxWorkers == 2     \* Worker objects alive at the same time
MaxTasks == 2       \* unfinished async handler invocations in one worker
MaxEpochs == 1      \* largest configured epoch count, Spec
MaxControlEpochs == 2 \* largest configured epoch count, SpecControl
NumBatches == 2     \* batches of one epoch, ceil(samples / batchSize)
MaxOutbox == 2      \* worker messages not yet delivered to the store
NumSamples == 5     \* rows of the dataset sent to the worker, dataConfig.xs.length
MaxConfigs == 3     \* configurations one worker receives in a behaviour of SpecSplit
MaxLayers == 3      \* layers of the hyperparameters store
MaxRows == 3        \* rows of a dataset whose target values are counted
MaxEditCmds == 3    \* store commands issued in one behaviour of SpecConfig, SpecSpeed
MaxDataCmds == 3    \* store commands issued in one behaviour of SpecData
MaxStopCmds == 4    \* store commands issued in one behaviour of SpecStop, SpecRestart

\* ------------------------------------------------------------- constants
\* speed is kept in half units, the slider's step: 0 manual, 1 = 0.5x, 2 = 1x
RealTime == 2
Speeds == 0..RealTime
StartCleanupTicks == 2   \* setTimeout(resolve, 200), in ticks of 100 ms
StartReadyTicks == 1     \* setTimeout(resolve, 100)
ValidationSplit == 20    \* validationSplit: 0.2, in percent

Stores == {"oscar", "legacy"}
TrainingStates == {"idle", "training", "paused", "stopped", "completed", "error"}
NoWorker == 0
WorkerIds == 1..MaxWorkers

VARIABLES
    impl,             \* which store module the page runs on
    trainingState, speed, currentEpoch, currentBatch, totalEpochs,
    trainingMetrics, modelPredictions, lastError, errorType,
    worker,           \* the store's worker handle
    trainingConfig, dataset, modelConfig,
    model,            \* the store's model: "null", or the state of the model it refers to
    demoModel,        \* the hyperparameters page's demoModel, the same object when both are set
    starts,           \* legacy startTraining calls suspended in a setTimeout
    workers,          \* the state of every Worker object
    run,              \* history: number of accepted starts
    applied,          \* history: run of the loop whose message was applied last
    teardown,         \* history: what was disposed again, and whether that raised
    cmds,             \* history: store commands issued so far
    limit,            \* history: the number of store commands explored
    lastOp,           \* history: the operation that made the last step
    prep,             \* the worker's trainingData and validationData tensors
    layers,           \* the hyperparameters store's layer list
    inputShape, expectedOutputSize,   \* the other arguments of validateModelShape
    shapeValidationResult,            \* the page's validation result, or its absence
    returned,         \* history: the layer list the last suggestion action returned
    problemType,      \* the training page's problemType
    targetData,       \* the dataset's rows, each by its value in the target column
    trainingDataset,  \* the rows of xs and of ys of the store's training dataset
    activations,      \* an extraction of per-layer activations and what it produced
    hyperparameters,  \* the hyperparameters store apart from its layers
    modelConfigValue, \* the model configuration given to setModelConfig
    built,            \* the model the page or the worker has constructed last
    unitOp            \* history: the operation of these parts that made the last step

storeVars == <<trainingState, speed, currentEpoch, currentBatch, totalEpochs,
               trainingMetrics, modelPredictions, lastError, errorType,
               worker, trainingConfig, dataset, modelConfig>>
demoVars == <<model, demoModel>>
trainVars == <<impl, storeVars, demoVars, starts, workers, run, applied, teardown, cmds, limit, lastOp>>
\* the state of the parts that are checked on their own
unitVars == <<prep, layers, inputShape, expectedOutputSize, shapeValidationResult, returned,
              problemType, targetData, trainingDataset, activations, hyperparameters,
              modelConfigValue,
              built, unitOp>>
buildVars == <<hyperparameters, modelConfigValue, built>>
dataVars == <<problemType, targetData, trainingDataset, activations>>
shapeVars == <<layers, inputShape, expectedOutputSize, shapeValidationResult, returned>>
vars == <<trainVars, unitVars>>

\* ------------------------------------------------------------- messages
\* a command carries the run it was issued in; epochs > 0 marks a config payload;
\* step is payload.type and stepType is payload.stepType of a step command;
\* history: state is the store's training state when a step was issued, and the
\* speed of a step command is the store's speed at that moment
Cmd(type, r) ==
    [type |-> type, run |-> r, epochs |-> 0, speed |-> 0, step |-> "none", stepType |-> "none",
     state |-> "none"]
CfgCmd(type, r, e, s) ==
    [type |-> type, run |-> r, epochs |-> e, speed |-> s, step |-> "none", stepType |-> "none",
     state |-> "none"]
StepCmd(r, st, stt, s, ts) ==
    [type |-> "step", run |-> r, epochs |-> 0, speed |-> s, step |-> st, stepType |-> stt,
     state |-> ts]
\* indices is the index field of each entry of a predictions payload
Resp(type, e, b, r, info) ==
    [type |-> type, epoch |-> e, batch |-> b, run |-> r, info |-> info, indices |-> <<>>]

RemoveAt(s, i) == [j \in 1..(Len(s) - 1) |-> IF j < i THEN s[j] ELSE s[j + 1]]

\* --------------------------------------------------------------- worker
NoTask == [kind |-> "none"]
FitPcs == {"batch", "yield", "pred", "frame"}

DeadWorker ==
    [alive |-> FALSE, cfg |-> FALSE, epochs |-> 0, speed |-> 0, data |-> FALSE,
     model |-> FALSE, isTraining |-> FALSE, isPaused |-> FALSE,
     \* trainingData.xs.shape[0]
     numSamples |-> 0,
     currentEpoch |-> 0, inbox |-> <<>>, outbox |-> <<>>, tasks |-> <<>>,
     \* history: epochs completed in this run; a resume was obeyed in this run;
     \* a pause was received during an epoch and no command since; an epoch
     \* began in spite of that pause
     done |-> {}, resumed |-> FALSE, pauseMid |-> FALSE, lateEpoch |-> FALSE,
     \* history: stop has disposed the model or the tensors ("once"), and has
     \* run again with nothing left to dispose ("again")
     stops |-> "none"]

FreshWorker == [DeadWorker EXCEPT !.alive = TRUE]

PostMessage(w, m) == [w EXCEPT !.outbox = Append(@, m)]

\* history of an invocation: a message its latest model.fit has posted
Sent(t, type, b) == [t EXCEPT !.sent = Append(@, [type |-> type, batch |-> b])]

\* model.fit refuses to start while another fit of the same model is running
Fitting(w) == \E i \in 1..Len(w.tasks) : w.tasks[i].pc \in FitPcs /\ ~w.tasks[i].dead

ErrorMsg(t, text) == Resp("error", 0, 0, t.run, text)

\* the catch of startTraining (loop) or of onmessage (step)
Catch(w, t, text) ==
    IF t.kind = "loop" /\ w.isPaused
    THEN [w |-> PostMessage(w, Resp("paused", w.currentEpoch, 0, t.run, "")), t |-> NoTask]
    ELSE [w |-> PostMessage(w, ErrorMsg(t, text)), t |-> NoTask]

\* Math.floor(xsData.length * (1 - validationSplit))
ShortComplements == {80, 90}
SplitIndex(n, pct) ==
    LET exact == n * (100 - pct)
    IN  IF pct \in ShortComplements /\ n > 0 /\ exact % 100 = 0
        THEN exact \div 100 - 1
        ELSE exact \div 100

\* sendPredictions: one entry per row of trainingData, index the loop counter
SendPredictions(w, r) ==
    IF ~w.model \/ ~w.data THEN w
    ELSE PostMessage(w, [Resp("predictions", 0, 0, r, "") EXCEPT
                            !.indices = [i \in 1..w.numSamples |-> i - 1]])

\* trainStep up to its first suspension inside model.fit
TrainStep(w, t) ==
    IF ~w.data THEN Catch(w, t, "TypeError")
    ELSE IF ~w.model THEN Catch(w, t, "Model not initialized")
    ELSE IF Fitting(w) THEN Catch(w, t, "another fit() call is ongoing")
    ELSE [w |-> [w EXCEPT !.lateEpoch = @ \/ w.pauseMid],
          t |-> [t EXCEPT !.pc = "batch", !.batch = 0, !.dead = FALSE, !.sent = <<>>]]

\* one evaluation of the for loop of startTraining, up to the next suspension
LoopHead(w, t) ==
    IF t.epoch < t.epochs /\ w.isTraining /\ ~w.isPaused
    THEN LET w1 == [w EXCEPT !.currentEpoch = t.epoch] IN
         IF w1.speed = 0
         THEN [w |-> PostMessage([w1 EXCEPT !.isPaused = TRUE],
                                 Resp("paused", t.epoch, 0, t.run, "manual_mode")),
               t |-> NoTask]
         ELSE IF w1.speed < RealTime
         THEN [w |-> w1, t |-> [t EXCEPT !.pc = "delay"]]
         ELSE TrainStep(w1, t)
    ELSE [w |-> IF w.isTraining
                THEN PostMessage(w, Resp("complete", w.currentEpoch, 0, t.run,
                                         \* history: why the loop ended
                                         IF t.epoch >= t.epochs THEN "exhausted"
                                         ELSE "interrupted"))
                ELSE w,
          t |-> NoTask]

\* startTraining of the worker, up to its first suspension
WorkerStartTraining(w, r) ==
    LET t0 == [kind |-> "loop", pc |-> "init", epoch |-> 0, epochs |-> w.epochs,
               batch |-> 0, run |-> r, dead |-> FALSE, step |-> "none", allowed |-> TRUE,
               \* history: the messages the latest model.fit of this invocation posted
               sent |-> <<>>]
    IN IF ~w.cfg \/ ~w.data
       THEN [w |-> PostMessage(w, ErrorMsg(t0, "Training not configured")), t |-> NoTask]
       ELSE LET w1 == [w EXCEPT !.isTraining = TRUE, !.isPaused = FALSE] IN
            IF ~w1.model
            THEN [w |-> [w1 EXCEPT !.model = TRUE], t |-> t0]
            ELSE LoopHead(w1, t0)

\* the config branch, and the payload part of the start branch
InstallConfig(w, m) ==
    [w EXCEPT !.cfg = TRUE, !.epochs = m.epochs, !.speed = m.speed, !.data = TRUE,
              !.numSamples = IF ValidationSplit > 0
                             THEN SplitIndex(NumSamples, ValidationSplit)
                             ELSE NumSamples]

\* the stop branch: flags cleared, model and tensors disposed under running fits
HandleStop(w) ==
    [w EXCEPT !.isTraining = FALSE, !.isPaused = FALSE, !.currentEpoch = 0,
              !.model = FALSE, !.data = FALSE, !.pauseMid = FALSE,
              !.stops = IF w.model \/ w.data THEN (IF @ = "none" THEN "once" ELSE @)
                        ELSE IF @ = "none" THEN "none" ELSE "again",
              !.tasks = [i \in 1..Len(w.tasks) |->
                            IF w.tasks[i].pc \in FitPcs
                            THEN [w.tasks[i] EXCEPT !.dead = TRUE]
                            ELSE w.tasks[i]]]

\* the step branch
HandleStep(w, m) ==
    LET t0 == [kind |-> "step", pc |-> "batch", epoch |-> 0, epochs |-> 0,
               batch |-> 0, run |-> m.run, dead |-> FALSE, step |-> m.step,
               \* history: the step was issued at speed 0 and not while training
               allowed |-> m.speed = 0 /\ m.state # "training", sent |-> <<>>]
       w0 == [w EXCEPT !.pauseMid = FALSE]
    IN IF w.cfg /\ w.data /\ w.speed = 0
       THEN IF m.step = "batch" THEN TrainStep(w0, t0)
            ELSE IF m.step = "epoch"
            THEN TrainStep([w0 EXCEPT !.currentEpoch = @ + 1], t0)
            ELSE [w |-> w0, t |-> NoTask]
       ELSE [w |-> w0, t |-> NoTask]

\* self.onmessage, up to the first suspension of the branch taken
OnMessage(w, m) ==
    CASE m.type = "config" -> [w |-> InstallConfig(w, m), t |-> NoTask]
      [] m.type = "start" ->
            LET w0 == [w EXCEPT !.done = {}, !.resumed = FALSE, !.pauseMid = FALSE]
            IN WorkerStartTraining(IF m.epochs > 0 THEN InstallConfig(w0, m) ELSE w0, m.run)
      [] m.type = "pause" ->
            [w |-> [w EXCEPT !.isPaused = TRUE, !.pauseMid = @ \/ Fitting(w)], t |-> NoTask]
      [] m.type = "resume" ->
            IF w.isPaused
            THEN WorkerStartTraining([w EXCEPT !.isPaused = FALSE, !.resumed = TRUE,
                                                !.pauseMid = FALSE], m.run)
            ELSE [w |-> [w EXCEPT !.pauseMid = FALSE], t |-> NoTask]
      [] m.type = "stop" -> [w |-> HandleStop(w), t |-> NoTask]
      [] m.type = "step" -> HandleStep(w, m)

\* onEpochEnd with the predictions sent before the metrics message
OnEpochEndPredictionsFirst(w, t) ==
    LET w0 == SendPredictions(w, t.run)
        t0 == IF w.model /\ w.data THEN Sent(t, "predictions", 0) ELSE t
        w1 == PostMessage([w0 EXCEPT !.currentEpoch = 0,
                                     !.done = IF t.kind = "loop" THEN @ \cup {t.epoch} ELSE @],
                          Resp("metrics", 0, 0, t.run, ""))
    IN [w |-> w1, t |-> [Sent(t0, "metrics", 0) EXCEPT !.pc = "frame"]]

\* onEpochEnd of trainStep, up to the await inside sendPredictions
OnEpochEnd(w, t) ==
    LET w1 == PostMessage([w EXCEPT !.currentEpoch = 0,
                                    !.done = IF t.kind = "loop" THEN @ \cup {t.epoch} ELSE @],
                          Resp("metrics", 0, 0, t.run, ""))
    IN [w |-> w1,
        t |-> [Sent(t, "metrics", 0) EXCEPT !.pc = IF w.model /\ w.data THEN "pred" ELSE "frame"]]

\* the continuation of a suspended invocation
Continue(w, t) ==
    CASE t.pc = "init" ->
            LoopHead(SendPredictions(w, t.run), t)
      [] t.pc = "delay" -> TrainStep(w, t)
      [] t.pc = "batch" ->
            IF t.dead THEN Catch(w, t, "disposed")
            ELSE [w |-> PostMessage(w, Resp("progress", w.currentEpoch, t.batch, t.run, "")),
                  t |-> [Sent(t, "progress", t.batch) EXCEPT !.pc = "yield"]]
      [] t.pc = "yield" ->
            IF w.isPaused \/ ~w.isTraining
            THEN Catch(w, t, "Training paused or stopped")
            ELSE IF t.batch + 1 < NumBatches
            THEN [w |-> w, t |-> [t EXCEPT !.pc = "batch", !.batch = @ + 1]]
            ELSE OnEpochEnd(w, t)
      [] t.pc = "pred" ->
            [w |-> SendPredictions(w, t.run),
             t |-> [(IF w.model /\ w.data THEN Sent(t, "predictions", 0) ELSE t)
                    EXCEPT !.pc = "frame"]]
      [] t.pc = "frame" ->
            IF t.kind = "loop" THEN [w |-> w, t |-> [t EXCEPT !.pc = "between"]]
            ELSE [w |-> w, t |-> NoTask]
      [] t.pc = "between" -> LoopHead(w, [t EXCEPT !.epoch = @ + 1])

\* ------------------------------------------------------------ event loops
Send(ws, id, m) == [ws EXCEPT ![id].inbox = Append(@, m)]

\* worker.terminate(): the worker's tasks and both message queues are discarded
Terminate(ws, id) == [ws EXCEPT ![id] = DeadWorker]

FreeIds == {id \in WorkerIds : ~workers[id].alive}
NewId == CHOOSE id \in FreeIds : \A other \in FreeIds : id <= other

Install(w, r, i) ==
    [r.w EXCEPT !.tasks =
        IF i = 0
        THEN (IF r.t.kind = "none" THEN r.w.tasks ELSE Append(r.w.tasks, r.t))
        ELSE (IF r.t.kind = "none" THEN RemoveAt(r.w.tasks, i)
              ELSE [r.w.tasks EXCEPT ![i] = r.t])]

\* the worker's event loop takes the next command from its queue
WorkerReceive(id) ==
    /\ workers[id].alive
    /\ workers[id].inbox # <<>>
    /\ LET w == workers[id]
           m == Head(w.inbox)
           r == OnMessage([w EXCEPT !.inbox = Tail(@)], m)
       IN /\ (r.t.kind # "none" => Len(w.tasks) < MaxTasks)
          /\ Len(r.w.outbox) <= MaxOutbox
          /\ workers' = [workers EXCEPT ![id] = Install(w, r, 0)]
          /\ lastOp' = "worker"
    /\ UNCHANGED <<unitVars, demoVars, teardown, limit, impl, storeVars, starts, run, applied, cmds>>

\* tf.tensor2d refuses an empty array, and tensor.slice a size beyond the rows
Rejected(d) == d.xs = 0 \/ d.ys = 0 \/ SplitIndex(d.xs, ValidationSplit) > d.ys

\* the worker's event loop takes the next command when the store's dataset is
\* any: the data preparation of a payload throws on a dataset it cannot turn
\* into tensors, after config has been assigned, and the catch of onmessage
\* posts the error
WorkerReceiveData(id) ==
    IF /\ workers[id].alive
       /\ workers[id].inbox # <<>>
       /\ Head(workers[id].inbox).epochs > 0
       /\ Rejected(trainingDataset)
    THEN LET w == workers[id]
             m == Head(w.inbox)
             w1 == PostMessage([w EXCEPT !.inbox = Tail(@), !.cfg = TRUE,
                                         !.epochs = m.epochs, !.speed = m.speed],
                               Resp("error", 0, 0, m.run, "tensor2d"))
         IN /\ Len(w1.outbox) <= MaxOutbox
            /\ workers' = [workers EXCEPT ![id] = w1]
            /\ lastOp' = "worker"
            /\ UNCHANGED <<unitVars, demoVars, teardown, limit, impl, storeVars, starts, run,
                           applied, cmds>>
    ELSE WorkerReceive(id)

WorkerContinue(id) ==
    /\ workers[id].alive
    /\ \E i \in 1..Len(workers[id].tasks) :
          LET w == workers[id]
              r == Continue(w, w.tasks[i])
          IN /\ Len(r.w.outbox) <= MaxOutbox
             /\ workers' = [workers EXCEPT ![id] = Install(w, r, i)]
             /\ lastOp' = "worker"
    /\ UNCHANGED <<unitVars, demoVars, teardown, limit, impl, storeVars, starts, run, applied, cmds>>

\* ------------------------------------------------------------------ store
\* history of a disposal: held tells whether the reference was set, threw
\* whether the library's dispose() found its target disposed already, before
\* whether the reference has been set and cleared before
Disposing(td, kind, held, threw, before) ==
    [td EXCEPT !.again = IF threw \/ (~held /\ before) THEN @ \cup {kind} ELSE @]

ClearMetrics == /\ trainingMetrics' = <<>>
                /\ modelPredictions' = {}

SetDataset ==
    /\ ~dataset
    /\ dataset' = TRUE
    /\ lastOp' = "setDataset"
    /\ UNCHANGED <<unitVars, demoVars, teardown, limit, impl, trainingState, speed, currentEpoch, currentBatch, totalEpochs,
                   trainingMetrics, modelPredictions, lastError, errorType, worker,
                   trainingConfig, modelConfig, starts, workers, run, applied, cmds>>

SetModelConfig ==
    /\ impl = "oscar"
    /\ ~modelConfig
    /\ modelConfig' = TRUE
    /\ lastOp' = "setModelConfig"
    /\ UNCHANGED <<unitVars, demoVars, teardown, limit, impl, trainingState, speed, currentEpoch, currentBatch, totalEpochs,
                   trainingMetrics, modelPredictions, lastError, errorType, worker,
                   trainingConfig, dataset, starts, workers, run, applied, cmds>>

SetSpeed ==
    /\ cmds < limit
    /\ \E s \in Speeds \ {speed} : speed' = s
    /\ cmds' = cmds + 1
    /\ lastOp' = "setSpeed"
    /\ UNCHANGED <<unitVars, demoVars, teardown, limit, impl, trainingState, currentEpoch, currentBatch, totalEpochs,
                   trainingMetrics, modelPredictions, lastError, errorType, worker,
                   trainingConfig, dataset, modelConfig, starts, workers, run, applied>>

\* handleSpeedChange of TrainingControls: the slider is disabled while the
\* training state is training, otherwise its value goes to setSpeed
HandleSpeedChange ==
    /\ trainingState # "training"
    /\ SetSpeed

\* setTrainingConfig: the given fields are merged into the stored configuration
SetTrainingConfig ==
    /\ cmds < limit
    /\ cmds' = cmds + 1
    /\ \E e \in (1..MaxControlEpochs) \ {trainingConfig.epochs} :
          trainingConfig' = [trainingConfig EXCEPT !.epochs = e]
    /\ lastOp' = "setTrainingConfig"
    /\ UNCHANGED <<unitVars, demoVars, teardown, limit, impl, trainingState, speed, currentEpoch, currentBatch, totalEpochs,
                   trainingMetrics, modelPredictions, lastError, errorType, worker,
                   dataset, modelConfig, starts, workers, run, applied>>

\* startTraining without the test of the model config
StartTrainingOscarNoConfigTest ==
    /\ impl = "oscar"
    /\ cmds < limit
    /\ cmds' = cmds + 1
    /\ lastOp' = "startTraining"
    /\ IF worker = NoWorker
       THEN /\ lastError' = "Training worker not initialized"
            /\ errorType' = "general"
            /\ UNCHANGED <<trainingState, workers, run>>
       ELSE IF ~dataset
       THEN /\ lastError' = "No training data available"
            /\ errorType' = "general"
            /\ UNCHANGED <<trainingState, workers, run>>
       ELSE /\ workers' = Send(workers, worker,
                               CfgCmd("start", run + 1, trainingConfig.epochs, speed))
            /\ trainingState' = "training"
            /\ run' = run + 1
            /\ UNCHANGED <<lastError, errorType>>
    /\ UNCHANGED <<unitVars, demoVars, teardown, limit, impl, speed, currentEpoch, currentBatch, totalEpochs, trainingMetrics,
                   modelPredictions, worker, trainingConfig, dataset, modelConfig,
                   starts, applied>>

\* oscar-store startTraining
StartTrainingOscar ==
    /\ impl = "oscar"
    /\ cmds < limit
    /\ cmds' = cmds + 1
    /\ lastOp' = "startTraining"
    /\ IF worker = NoWorker
       THEN /\ lastError' = "Training worker not initialized"
            /\ errorType' = "general"
            /\ UNCHANGED <<trainingState, workers, run>>
       ELSE IF ~dataset
       THEN /\ lastError' = "No training data available"
            /\ errorType' = "general"
            /\ UNCHANGED <<trainingState, workers, run>>
       ELSE IF ~modelConfig
       THEN /\ lastError' = "No model configuration available"
            /\ errorType' = "general"
            /\ UNCHANGED <<trainingState, workers, run>>
       ELSE /\ workers' = Send(workers, worker,
                               CfgCmd("start", run + 1, trainingConfig.epochs, speed))
            /\ trainingState' = "training"
            /\ run' = run + 1
            /\ UNCHANGED <<lastError, errorType>>
    /\ UNCHANGED <<unitVars, demoVars, teardown, limit, impl, speed, currentEpoch, currentBatch, totalEpochs, trainingMetrics,
                   modelPredictions, worker, trainingConfig, dataset, modelConfig,
                   starts, applied>>

\* training-store startTraining, up to its first setTimeout
StartTrainingLegacy ==
    /\ impl = "legacy"
    /\ cmds < limit
    /\ cmds' = cmds + 1
    /\ lastOp' = "startTraining"
    /\ IF ~dataset
       THEN UNCHANGED <<trainingMetrics, modelPredictions, worker, workers, starts, teardown>>
       ELSE /\ ClearMetrics
            \* get().disposeWorker()
            /\ teardown' = Disposing(teardown, "worker", worker # NoWorker, FALSE, run > 0)
            /\ worker' = NoWorker
            /\ workers' = IF worker # NoWorker THEN Terminate(workers, worker) ELSE workers
            /\ starts' = Append(starts, [pc |-> "cleanup", t |-> StartCleanupTicks,
                                         epochs |-> trainingConfig.epochs, speed |-> speed])
    /\ UNCHANGED <<unitVars, demoVars, limit, impl, trainingState, speed, currentEpoch, currentBatch, totalEpochs,
                   lastError, errorType, trainingConfig, dataset, modelConfig, run, applied>>

\* a timer of equal delay that was set earlier fires first
Due(i) == /\ starts[i].t = 0
          /\ \A j \in 1..(i - 1) : ~(starts[j].t = 0 /\ starts[j].pc = starts[i].pc)

\* training-store startTraining after the 200 ms wait: initializeWorker, second wait
StartTrainingLegacyInit ==
    /\ \E i \in 1..Len(starts) :
          /\ Due(i)
          /\ starts[i].pc = "cleanup"
          /\ starts' = [starts EXCEPT ![i] = [@ EXCEPT !.pc = "ready", !.t = StartReadyTicks]]
    /\ IF worker = NoWorker
       THEN /\ FreeIds # {}
            /\ worker' = NewId
            /\ workers' = [workers EXCEPT ![NewId] = FreshWorker]
       ELSE UNCHANGED <<worker, workers>>
    /\ lastOp' = "startTraining:init"
    /\ UNCHANGED <<unitVars, demoVars, teardown, limit, impl, trainingState, speed, currentEpoch, currentBatch, totalEpochs,
                   trainingMetrics, modelPredictions, lastError, errorType,
                   trainingConfig, dataset, modelConfig, run, applied, cmds>>

\* training-store startTraining after the 100 ms wait: state reset, config and start sent
StartTrainingLegacyFinish ==
    /\ \E i \in 1..Len(starts) :
          /\ Due(i)
          /\ starts[i].pc = "ready"
          /\ starts' = RemoveAt(starts, i)
          /\ IF worker = NoWorker
             THEN UNCHANGED <<trainingState, currentEpoch, currentBatch, totalEpochs,
                              workers, run>>
             ELSE /\ trainingState' = "training"
                  /\ currentEpoch' = 0
                  /\ currentBatch' = 0
                  /\ totalEpochs' = starts[i].epochs
                  /\ run' = run + 1
                  /\ workers' = Send(Send(workers, worker,
                                          CfgCmd("config", run + 1, starts[i].epochs,
                                                 starts[i].speed)),
                                     worker, Cmd("start", run + 1))
    /\ lastOp' = "startTraining:finish"
    /\ UNCHANGED <<unitVars, demoVars, teardown, limit, impl, speed, trainingMetrics, modelPredictions, lastError, errorType,
                   worker, trainingConfig, dataset, modelConfig, applied, cmds>>

\* 100 ms pass on the UI thread while a startTraining call sleeps
Tick ==
    /\ starts # <<>>
    /\ \A i \in 1..Len(starts) : starts[i].t > 0
    /\ starts' = [i \in 1..Len(starts) |-> [starts[i] EXCEPT !.t = @ - 1]]
    /\ lastOp' = "tick"
    /\ UNCHANGED <<unitVars, demoVars, teardown, limit, impl, storeVars, workers, run, applied, cmds>>

PauseTraining ==
    /\ cmds < limit
    /\ cmds' = cmds + 1
    /\ workers' = IF worker # NoWorker THEN Send(workers, worker, Cmd("pause", run))
                  ELSE workers
    /\ trainingState' = "paused"
    /\ lastOp' = "pauseTraining"
    /\ UNCHANGED <<unitVars, demoVars, teardown, limit, impl, speed, currentEpoch, currentBatch, totalEpochs, trainingMetrics,
                   modelPredictions, lastError, errorType, worker, trainingConfig,
                   dataset, modelConfig, starts, run, applied>>

ResumeTraining ==
    /\ cmds < limit
    /\ cmds' = cmds + 1
    /\ workers' = IF worker # NoWorker THEN Send(workers, worker, Cmd("resume", run))
                  ELSE workers
    /\ trainingState' = "training"
    /\ lastOp' = "resumeTraining"
    /\ UNCHANGED <<unitVars, demoVars, teardown, limit, impl, speed, currentEpoch, currentBatch, totalEpochs, trainingMetrics,
                   modelPredictions, lastError, errorType, worker, trainingConfig,
                   dataset, modelConfig, starts, run, applied>>

\* oscar-store stopTraining: the stop command is posted and the worker terminated
StopTrainingOscar ==
    /\ impl = "oscar"
    /\ cmds < limit
    /\ cmds' = cmds + 1
    /\ workers' = IF worker # NoWorker
                  THEN Terminate(Send(workers, worker, Cmd("stop", run)), worker)
                  ELSE workers
    /\ trainingState' = "idle"
    /\ worker' = NoWorker
    /\ lastOp' = "stopTraining"
    /\ UNCHANGED <<unitVars, demoVars, teardown, limit, impl, speed, currentEpoch, currentBatch, totalEpochs, trainingMetrics,
                   modelPredictions, lastError, errorType, trainingConfig,
                   dataset, modelConfig, starts, run, applied>>

\* training-store stopTraining: the worker is kept
StopTrainingLegacy ==
    /\ impl = "legacy"
    /\ cmds < limit
    /\ cmds' = cmds + 1
    /\ workers' = IF worker # NoWorker THEN Send(workers, worker, Cmd("stop", run))
                  ELSE workers
    /\ trainingState' = "idle"
    /\ currentEpoch' = 0
    /\ currentBatch' = 0
    /\ ClearMetrics
    /\ lastOp' = "stopTraining"
    /\ UNCHANGED <<unitVars, demoVars, teardown, limit, impl, speed, totalEpochs, lastError, errorType, worker, trainingConfig,
                   dataset, modelConfig, starts, run, applied>>

\* stepBatch and stepEpoch: oscar-store sends {stepType}, training-store {type}
Step(kind) ==
    /\ cmds < limit
    /\ cmds' = cmds + 1
    /\ workers' = IF impl = "oscar"
                  THEN (IF worker # NoWorker
                        THEN Send(workers, worker,
                                  StepCmd(run, "none", kind, speed, trainingState))
                        ELSE workers)
                  ELSE (IF worker # NoWorker /\ speed = 0
                        THEN Send(workers, worker,
                                  StepCmd(run, kind, "none", speed, trainingState))
                        ELSE workers)
    /\ lastOp' = "step:" \o kind
    /\ UNCHANGED <<unitVars, demoVars, teardown, limit, impl, storeVars, starts, run, applied>>

StepBatch == Step("batch")

StepEpoch == Step("epoch")

\* scrubToEpoch: oscar-store overwrites currentEpoch, training-store only logs
ScrubToEpoch ==
    /\ cmds < limit
    /\ cmds' = cmds + 1
    /\ \E e \in 0..MaxEpochs :
          currentEpoch' = IF impl = "oscar" THEN e ELSE currentEpoch
    /\ lastOp' = "scrubToEpoch"
    /\ UNCHANGED <<unitVars, demoVars, teardown, limit, impl, trainingState, speed, currentBatch, totalEpochs,
                   trainingMetrics, modelPredictions, lastError, errorType, worker,
                   trainingConfig, dataset, modelConfig, starts, workers, run, applied>>

\* oscar-store initializeWorker: always a new Worker, the handle is overwritten
InitializeWorkerOscar ==
    /\ impl = "oscar"
    /\ cmds < limit
    /\ FreeIds # {}
    /\ cmds' = cmds + 1
    /\ workers' = [workers EXCEPT ![NewId] = FreshWorker]
    /\ worker' = NewId
    /\ lastOp' = "initializeWorker"
    /\ UNCHANGED <<unitVars, demoVars, teardown, limit, impl, trainingState, speed, currentEpoch, currentBatch, totalEpochs,
                   trainingMetrics, modelPredictions, lastError, errorType, trainingConfig,
                   dataset, modelConfig, starts, run, applied>>

\* training-store initializeWorker: nothing happens when a worker is held
InitializeWorkerLegacy ==
    /\ impl = "legacy"
    /\ cmds < limit
    /\ cmds' = cmds + 1
    /\ IF worker # NoWorker
       THEN UNCHANGED <<worker, workers>>
       ELSE /\ FreeIds # {}
            /\ workers' = [workers EXCEPT ![NewId] = FreshWorker]
            /\ worker' = NewId
    /\ lastOp' = "initializeWorker"
    /\ UNCHANGED <<unitVars, demoVars, teardown, limit, impl, trainingState, speed, currentEpoch, currentBatch, totalEpochs,
                   trainingMetrics, modelPredictions, lastError, errorType, trainingConfig,
                   dataset, modelConfig, starts, run, applied>>

DisposeWorker ==
    /\ cmds < limit
    /\ cmds' = cmds + 1
    /\ IF worker # NoWorker
       THEN /\ workers' = Terminate(workers, worker)
            /\ worker' = NoWorker
       ELSE UNCHANGED <<worker, workers>>
    /\ teardown' = Disposing(teardown, "worker", worker # NoWorker, FALSE, run > 0)
    /\ lastOp' = "disposeWorker"
    /\ UNCHANGED <<unitVars, demoVars, limit, impl, trainingState, speed, currentEpoch, currentBatch, totalEpochs,
                   trainingMetrics, modelPredictions, lastError, errorType, trainingConfig,
                   dataset, modelConfig, starts, run, applied>>

\* dispose() of a tf model raises when the model is disposed already
DisposeThrows(m) == m = "disposed"

\* the state of the other reference to a model that has just been disposed
Disposed(m) == IF m = "null" THEN "null" ELSE "disposed"

\* visualizeArchitecture of the hyperparameters page: the previous demo model is
\* disposed inside try/catch, a new model is built and handed to
\* TensorFlowModelMonitor.initializeModel, which calls setModel
VisualizeArchitecture ==
    /\ cmds < limit
    /\ cmds' = cmds + 1
    /\ teardown' = Disposing(teardown, "model", demoModel # "null", DisposeThrows(demoModel), FALSE)
    /\ demoModel' = "live"
    /\ model' = "live"
    /\ lastOp' = "visualizeArchitecture"
    /\ UNCHANGED <<unitVars, limit, impl, storeVars, starts, workers, run, applied>>

\* the unmount cleanup of the hyperparameters page: demoModel disposed in try/catch
DisposeDemoModel ==
    /\ cmds < limit
    /\ cmds' = cmds + 1
    /\ teardown' = Disposing(teardown, "model", demoModel # "null", DisposeThrows(demoModel), FALSE)
    /\ demoModel' = "null"
    /\ model' = IF demoModel # "null" THEN Disposed(model) ELSE model
    /\ lastOp' = "disposeDemoModel"
    /\ UNCHANGED <<unitVars, limit, impl, storeVars, starts, workers, run, applied>>

\* TensorFlowModelMonitor.dispose without the try/catch around model.dispose()
MonitorDisposeNoCatch ==
    /\ cmds < limit
    /\ cmds' = cmds + 1
    /\ IF model # "null" /\ DisposeThrows(model)
       THEN /\ teardown' = [Disposing(teardown, "model", TRUE, TRUE, FALSE) EXCEPT !.raised = TRUE]
            /\ UNCHANGED demoVars
       ELSE /\ teardown' = Disposing(teardown, "model", model # "null", FALSE, FALSE)
            /\ model' = "null"
            /\ demoModel' = IF model # "null" THEN Disposed(demoModel) ELSE demoModel
    /\ lastOp' = "dispose"
    /\ UNCHANGED <<unitVars, limit, impl, storeVars, starts, workers, run, applied>>

\* TensorFlowModelMonitor.dispose: what model.dispose() throws is caught, and the
\* store's reference is cleared either way
MonitorDispose ==
    /\ cmds < limit
    /\ cmds' = cmds + 1
    /\ teardown' = Disposing(teardown, "model", model # "null", DisposeThrows(model), FALSE)
    /\ model' = "null"
    /\ demoModel' = IF model # "null" THEN Disposed(demoModel) ELSE demoModel
    /\ lastOp' = "dispose"
    /\ UNCHANGED <<unitVars, limit, impl, storeVars, starts, workers, run, applied>>

\* `payload.x || state.x` of the oscar-store progress handler
OrElse(a, b) == IF a # 0 THEN a ELSE b

\* worker.onmessage as installed by oscar-store initializeWorker
StoreOnMessageOscar(id) ==
    /\ impl = "oscar"
    /\ workers[id].alive
    /\ workers[id].outbox # <<>>
    /\ LET m == Head(workers[id].outbox) IN
       /\ workers' = [workers EXCEPT ![id].outbox = Tail(@)]
       /\ applied' = m.run
       /\ lastOp' = "onmessage:" \o m.type
       /\ CASE m.type = "progress" ->
                 /\ currentEpoch' = OrElse(m.epoch, currentEpoch)
                 /\ currentBatch' = OrElse(m.batch, currentBatch)
                 /\ UNCHANGED <<trainingState, trainingMetrics, modelPredictions,
                                lastError, errorType>>
            [] m.type = "metrics" ->
                 /\ trainingMetrics' = Append(trainingMetrics, [epoch |-> m.epoch, run |-> m.run])
                 /\ UNCHANGED <<trainingState, currentEpoch, currentBatch, modelPredictions,
                                lastError, errorType>>
            [] m.type = "predictions" ->
                 /\ modelPredictions' = {m.run}
                 /\ UNCHANGED <<trainingState, currentEpoch, currentBatch, trainingMetrics,
                                lastError, errorType>>
            [] m.type = "complete" ->
                 /\ trainingState' = "completed"
                 /\ UNCHANGED <<currentEpoch, currentBatch, trainingMetrics, modelPredictions,
                                lastError, errorType>>
            [] m.type = "error" ->
                 /\ trainingState' = "idle"
                 /\ lastError' = "Training error occurred"
                 /\ errorType' = "general"
                 /\ UNCHANGED <<currentEpoch, currentBatch, trainingMetrics, modelPredictions>>
            [] m.type = "paused" ->
                 /\ trainingState' = "paused"
                 /\ UNCHANGED <<currentEpoch, currentBatch, trainingMetrics, modelPredictions,
                                lastError, errorType>>
    /\ UNCHANGED <<unitVars, demoVars, teardown, limit, impl, speed, totalEpochs, worker, trainingConfig, dataset, modelConfig,
                   starts, run, cmds>>

\* worker.onmessage as installed by training-store initializeWorker
StoreOnMessageLegacy(id) ==
    /\ impl = "legacy"
    /\ workers[id].alive
    /\ workers[id].outbox # <<>>
    /\ LET m == Head(workers[id].outbox) IN
       /\ workers' = [workers EXCEPT ![id].outbox = Tail(@)]
       /\ applied' = m.run
       /\ lastOp' = "onmessage:" \o m.type
       /\ CASE m.type = "progress" ->
                 /\ currentEpoch' = m.epoch
                 /\ currentBatch' = m.batch
                 /\ UNCHANGED <<trainingState, trainingMetrics, modelPredictions>>
            [] m.type = "metrics" ->
                 /\ trainingMetrics' = Append(trainingMetrics, [epoch |-> m.epoch, run |-> m.run])
                 /\ currentEpoch' = m.epoch
                 /\ currentBatch' = 0
                 /\ UNCHANGED <<trainingState, modelPredictions>>
            [] m.type = "predictions" ->
                 /\ modelPredictions' = {m.run}
                 /\ UNCHANGED <<trainingState, currentEpoch, currentBatch, trainingMetrics>>
            [] m.type \in {"complete", "error"} ->
                 /\ trainingState' = "idle"
                 /\ UNCHANGED <<currentEpoch, currentBatch, trainingMetrics, modelPredictions>>
            [] m.type = "paused" ->
                 /\ trainingState' = "paused"
                 /\ UNCHANGED <<currentEpoch, currentBatch, trainingMetrics, modelPredictions>>
    /\ UNCHANGED <<unitVars, demoVars, teardown, limit, impl, speed, totalEpochs, lastError, errorType, worker, trainingConfig,
                   dataset, modelConfig, starts, run, cmds>>

\* ------------------------------------------------------ data preparation
\* a tensor of the worker: the dataset rows it holds, by position in the dataset
NoTensor == [null |-> TRUE, rows |-> <<>>, disposed |-> FALSE]
Tensor2d(n) == [null |-> FALSE, rows |-> [i \in 1..n |-> i], disposed |-> FALSE]
\* tensor.slice([begin, 0], [size, -1]) with begin counted from 0; size -1 is the rest
Slice(t, begin, size) ==
    LET len == IF size = -1 THEN Len(t.rows) - begin ELSE size
    IN  [null |-> FALSE, rows |-> [i \in 1..len |-> t.rows[begin + i]], disposed |-> FALSE]
Dispose(t) == [t EXCEPT !.disposed = TRUE]

\* history: n and pct are xsData.length and validationSplit of the configuration
\* held, configs counts the configurations received
NoPrep == [held |-> FALSE, n |-> 0, pct |-> 0, trainingData |-> NoTensor,
           validationData |-> NoTensor, configs |-> 0]
SplitPcts == {0, 20, 50, 80}

\* the data preparation of the worker's config branch, and of its start branch
\* when start carries a payload
PrepareData(n, pct) ==
    /\ prep.configs < MaxConfigs
    /\ LET xs == Tensor2d(n)
           splitIndex == SplitIndex(n, pct)
       IN  prep' = IF pct > 0
                   THEN [prep EXCEPT !.held = TRUE, !.n = n, !.pct = pct,
                                     !.trainingData = Slice(xs, 0, splitIndex),
                                     !.validationData = Slice(xs, splitIndex, -1),
                                     !.configs = @ + 1]
                   ELSE [prep EXCEPT !.held = TRUE, !.n = n, !.pct = pct,
                                     !.trainingData = Dispose(xs),
                                     !.configs = @ + 1]
    /\ unitOp' = "config"
    /\ UNCHANGED <<trainVars, shapeVars, dataVars, buildVars>>

\* the stop branch: both slices are disposed and forgotten
StopData ==
    /\ prep.held
    /\ prep' = [prep EXCEPT !.held = FALSE, !.trainingData = NoTensor, !.validationData = NoTensor]
    /\ unitOp' = "stop"
    /\ UNCHANGED <<trainVars, shapeVars, dataVars, buildVars>>

\* ------------------------------------------------------- shape validator
\* a layer of the hyperparameters store; units 0 stands for units left out
\* and so do filters 0, kernelSize 0 and activation "none"
DenseLayer(id, units, activation) ==
    [id |-> id, type |-> "Dense", units |-> units, activation |-> activation,
     filters |-> 0, kernelSize |-> 0]
FlattenLayer(id) ==
    [id |-> id, type |-> "Flatten", units |-> 0, activation |-> "none",
     filters |-> 0, kernelSize |-> 0]
Conv2DLayer(id, filters, kernelSize) ==
    [id |-> id, type |-> "Conv2D", units |-> 0, activation |-> "ReLU",
     filters |-> filters, kernelSize |-> kernelSize]

\* Math.ceil(inputSize / 2) and Math.ceil(prevUnits * 0.25)
CeilHalf(n) == (n + 1) \div 2
CeilQuarter(n) == (n + 3) \div 4
Max(a, b) == IF a > b THEN a ELSE b

\* layerIndex counts from 0, as the code's loop variable does
ShapeIssue(type, i, layer, expected, actual) ==
    [type |-> type, layerIndex |-> i - 1, layerId |-> layer.id, expected |-> expected,
     actual |-> actual]
\* the action of a fix is a closure over the validated list: ls is that list,
\* units the value the action gives to the layer at layerIndex
ShapeFix(type, i, layer, ls, units) ==
    [type |-> type, layerIndex |-> i - 1, layerId |-> layer.id, layers |-> ls, units |-> units]

\* suggestion.action(): a copy of the captured list with one layer replaced by
\* a copy of it that has the new units; captured is the list the closure holds,
\* as the call leaves it
ActionInPlace(fix) ==
    LET newLayers == [fix.layers EXCEPT ![fix.layerIndex + 1] = [@ EXCEPT !.units = fix.units]]
    IN  [returned |-> newLayers, captured |-> newLayers]
Action(fix) ==
    LET newLayers == [fix.layers EXCEPT ![fix.layerIndex + 1] = [@ EXCEPT !.units = fix.units]]
    IN  [returned |-> newLayers, captured |-> fix.layers]

\* currentSize after the first i layers of the first loop
RECURSIVE CurrentSize(_, _, _)
CurrentSize(ls, inputSize, i) ==
    IF i = 0 THEN inputSize
    ELSE LET size == CurrentSize(ls, inputSize, i - 1)
         IN  IF ls[i].type = "Dense" THEN OrElse(ls[i].units, size) ELSE size

\* the first loop's test of layer 0
InputCheck(ls, inputSize) ==
    LET layer == ls[1]
    IN  IF layer.type = "Dense" /\ layer.units # 0 /\ inputSize > layer.units * 10
        THEN [issues |-> <<ShapeIssue("input_mismatch", 1, layer, inputSize, layer.units)>>,
              suggestions |-> <<ShapeFix("adjust_layer", 1, layer, ls,
                                         Max(layer.units, CeilHalf(inputSize)))>>]
        ELSE [issues |-> <<>>, suggestions |-> <<>>]

\* the output layer check; expected 0 stands for expectedOutputSize left out
OutputCheckCurrentSizeOnly(ls, inputSize, expected) ==
    LET lastLayer == ls[Len(ls)]
        lastLayerOutputSize == CurrentSize(ls, inputSize, Len(ls) - 1)
    IN  IF expected # 0 /\ lastLayerOutputSize # expected
        THEN [issues |-> <<ShapeIssue("output_mismatch", Len(ls), lastLayer, expected,
                                      lastLayerOutputSize)>>,
              suggestions |-> <<ShapeFix("adjust_output", Len(ls), lastLayer, ls, expected)>>]
        ELSE [issues |-> <<>>, suggestions |-> <<>>]
OutputCheck(ls, inputSize, expected) ==
    LET lastLayer == ls[Len(ls)]
        lastLayerOutputSize == OrElse(lastLayer.units, CurrentSize(ls, inputSize, Len(ls)))
    IN  IF expected # 0 /\ lastLayerOutputSize # expected
        THEN [issues |-> <<ShapeIssue("output_mismatch", Len(ls), lastLayer, expected,
                                      lastLayerOutputSize)>>,
              suggestions |-> <<ShapeFix("adjust_output", Len(ls), lastLayer, ls, expected)>>]
        ELSE [issues |-> <<>>, suggestions |-> <<>>]

\* the bottleneck loop from layer i on (i counts from 1, the loop starts at the
\* second layer and stops before the last)
RECURSIVE BottleneckCheckToLast(_, _)
BottleneckCheckToLast(ls, i) ==
    IF i > Len(ls) THEN [issues |-> <<>>, suggestions |-> <<>>]
    ELSE LET layer == ls[i]
             prevLayer == ls[i - 1]
             rest == BottleneckCheckToLast(ls, i + 1)
         IN  IF /\ layer.type = "Dense" /\ prevLayer.type = "Dense"
                /\ layer.units * 10 < prevLayer.units /\ layer.units < 16
             THEN [issues |-> <<ShapeIssue("layer_mismatch", i, layer,
                                           CeilQuarter(prevLayer.units), layer.units)>>
                               \o rest.issues,
                   suggestions |-> <<ShapeFix("adjust_layer", i, layer, ls,
                                              CeilQuarter(prevLayer.units))>>
                                    \o rest.suggestions]
             ELSE rest
RECURSIVE BottleneckCheck(_, _)
BottleneckCheck(ls, i) ==
    IF i > Len(ls) - 1 THEN [issues |-> <<>>, suggestions |-> <<>>]
    ELSE LET layer == ls[i]
             prevLayer == ls[i - 1]
             rest == BottleneckCheck(ls, i + 1)
         IN  IF /\ layer.type = "Dense" /\ prevLayer.type = "Dense"
                /\ layer.units * 10 < prevLayer.units /\ layer.units < 16
             THEN [issues |-> <<ShapeIssue("layer_mismatch", i, layer,
                                           CeilQuarter(prevLayer.units), layer.units)>>
                               \o rest.issues,
                   suggestions |-> <<ShapeFix("adjust_layer", i, layer, ls,
                                              CeilQuarter(prevLayer.units))>>
                                    \o rest.suggestions]
             ELSE rest

\* history: layers is the list a result was computed from
NoResult ==
    [null |-> TRUE, isValid |-> TRUE, issues |-> <<>>, suggestions |-> <<>>, layers |-> <<>>]

\* ShapeValidator.validateModelShape; layers is the list passed in, as the call
\* leaves it
ValidateModelShape(ls, inputSize, expected) ==
    IF Len(ls) = 0
    THEN [null |-> FALSE, isValid |-> TRUE, issues |-> <<>>, suggestions |-> <<>>, layers |-> ls]
    ELSE LET input == InputCheck(ls, inputSize)
             output == OutputCheck(ls, inputSize, expected)
             bottleneck == BottleneckCheck(ls, 2)
             issues == input.issues \o output.issues \o bottleneck.issues
         IN  [null |-> FALSE, isValid |-> Len(issues) = 0, issues |-> issues,
              suggestions |-> input.suggestions \o output.suggestions \o bottleneck.suggestions,
              layers |-> ls]

\* ShapeValidator.applySuggestionFixes after the first k suggestions: every
\* action returns a list, and each one replaces result.layers
RECURSIVE ApplySuggestionFixesTo(_, _)
ApplySuggestionFixesTo(suggestions, k) ==
    IF k = 0 THEN [hasLayers |-> FALSE, layers |-> <<>>]
    ELSE [ApplySuggestionFixesTo(suggestions, k - 1)
             EXCEPT !.hasLayers = TRUE, !.layers = Action(suggestions[k]).returned]
ApplySuggestionFixes(suggestions) == ApplySuggestionFixesTo(suggestions, Len(suggestions))

\* updateLayer(id, layer) of the hyperparameters store
UpdateLayer(ls, id, layer) ==
    [i \in 1..Len(ls) |-> IF ls[i].id = id
                           THEN [ls[i] EXCEPT !.type = layer.type, !.units = layer.units,
                                              !.activation = layer.activation,
                                              !.filters = layer.filters,
                                              !.kernelSize = layer.kernelSize]
                           ELSE ls[i]]
RECURSIVE UpdateLayers(_, _, _)
UpdateLayers(ls, fixedLayers, k) ==
    IF k = 0 THEN ls
    ELSE UpdateLayer(UpdateLayers(ls, fixedLayers, k - 1), fixedLayers[k].id, fixedLayers[k])

\* the arguments validateModelShape is called with
UnitChoices == {0, 1, 10, 20}
InputSizes == {2, 25}
ExpectedSizes == {0, 1, 3}
LayerChoices(id) ==
    {DenseLayer(id, u, "ReLU") : u \in UnitChoices} \cup {FlattenLayer(id)}
LayerLists ==
    UNION {{ls \in [1..n -> UNION {LayerChoices(id) : id \in 1..n}] :
                \A i \in 1..n : ls[i].id = i} : n \in 0..MaxLayers}

\* a call of validateModelShape on the store's layers
Validate ==
    /\ LET result == ValidateModelShape(layers, inputShape, expectedOutputSize)
       IN  /\ shapeValidationResult' = result
           /\ layers' = result.layers
    /\ unitOp' = "validate"
    /\ UNCHANGED <<trainVars, dataVars, buildVars, prep, inputShape, expectedOutputSize, returned>>

\* a call of the action of one suggestion of the result
ExecuteSuggestion(k) ==
    /\ k \in 1..Len(shapeValidationResult.suggestions)
    /\ LET fix == shapeValidationResult.suggestions[k]
           done == Action(fix)
       IN  /\ returned' = done.returned
           /\ layers' = done.captured
    /\ unitOp' = "action"
    /\ UNCHANGED <<trainVars, dataVars, buildVars, prep, inputShape, expectedOutputSize, shapeValidationResult>>

\* handleApplyShapeFixes with the dialog's suggestions, which are all of them
HandleApplyShapeFixes ==
    /\ ~shapeValidationResult.null
    /\ LET result == ApplySuggestionFixes(shapeValidationResult.suggestions)
       IN  layers' = IF result.hasLayers
                     THEN UpdateLayers(layers, result.layers, Len(result.layers))
                     ELSE layers
    /\ shapeValidationResult' = NoResult
    /\ unitOp' = "apply"
    /\ UNCHANGED <<trainVars, dataVars, buildVars, prep, inputShape, expectedOutputSize, returned>>

\* ---------------------------------------------------- expected output size
NoDataset == [dataset |-> FALSE, rows |-> <<>>]
TargetValues == {"undefined", "a", "b", "c"}
Datasets ==
    {NoDataset} \cup
    UNION {{[dataset |-> TRUE, rows |-> rows] : rows \in [1..n -> TargetValues]} : n \in 0..MaxRows}

\* the Set of the defined values of the target column
UniqueValues(rows) == {rows[i] : i \in 1..Len(rows)} \ {"undefined"}

\* ShapeValidator.getExpectedOutputSize
GetExpectedOutputSize(d, type) ==
    IF type = "regression" THEN 1
    ELSE IF ~d.dataset \/ Len(d.rows) = 0 THEN 2
    ELSE IF Cardinality(UniqueValues(d.rows)) = 2 THEN 1
    ELSE Cardinality(UniqueValues(d.rows))

\* a call of getExpectedOutputSize, its result kept as the expected size
ExpectedOutputSize ==
    /\ unitOp = "none"
    /\ expectedOutputSize' = GetExpectedOutputSize(targetData, problemType)
    /\ unitOp' = "outputSize"
    /\ UNCHANGED <<trainVars, dataVars, buildVars, prep, layers, inputShape, shapeValidationResult, returned>>

\* ------------------------------------------------ auto-fix and model builder
\* learningRate in thousandths
DefaultHyperparameters ==
    [learningRate |-> 1, optimizer |-> "Adam", batchSize |-> 32, epochs |-> 100]
NoModelConfig == [set |-> FALSE, layers |-> <<>>, learningRate |-> 0, loss |-> "none",
                  metrics |-> "none"]
NoModel == [by |-> "none", threw |-> FALSE, layers |-> <<>>]

\* the Set of dataset.ys.flat()
UniqueClasses(rows) == {rows[i] : i \in 1..Len(rows)}

\* layer.activation?.toLowerCase() || 'relu'
LowerCase(activation) ==
    CASE activation = "ReLU" -> "relu"
      [] activation = "Sigmoid" -> "sigmoid"
      [] activation = "Softmax" -> "softmax"
      [] activation = "Linear" -> "linear"
      [] OTHER -> "relu"

\* the worker format of one layer; inputShape tells whether the layer carries one
ModelLayer(layer, index, hasRow) ==
    IF layer.type = "Dense"
    THEN [type |-> "dense", units |-> IF layer.units # 0 THEN layer.units ELSE 64,
          activation |-> LowerCase(layer.activation), inputShape |-> index = 1 /\ hasRow]
    ELSE [type |-> IF layer.type = "Flatten" THEN "flatten" ELSE "conv2d", units |-> 0,
          activation |-> "none", inputShape |-> FALSE]
ModelLayers(ls, hasRow) == [i \in 1..Len(ls) |-> ModelLayer(ls[i], i, hasRow)]

\* targetShape of handleAutofix
TargetShape(type, rows) ==
    IF type = "classification" THEN Cardinality(UniqueClasses(rows)) ELSE 1
TargetActivation(type, targetShape) ==
    IF type = "classification"
    THEN IF targetShape > 2 THEN "Softmax" ELSE "Sigmoid"
    ELSE "ReLU"

\* updateLayer(lastLayer.id, {units, activation}) of handleAutofix
AutofixLayersEveryDense(ls, targetShape, type) ==
    [i \in 1..Len(ls) |->
        IF ls[i].type = "Dense"
        THEN [ls[i] EXCEPT !.units = targetShape,
                           !.activation = TargetActivation(type, targetShape)]
        ELSE ls[i]]
AutofixLayers(ls, targetShape, type) ==
    [i \in 1..Len(ls) |->
        IF ls[i].id = ls[Len(ls)].id
        THEN [ls[i] EXCEPT !.units = targetShape,
                           !.activation = TargetActivation(type, targetShape)]
        ELSE ls[i]]

\* handleAutofix of the training page, offered by the error dialog; clearError
\* ends it in every case
HandleAutofix ==
    /\ lastError # "null" /\ errorType # "null"
    /\ IF errorType = "shape_mismatch" /\ dataset /\ Len(layers) > 0
       THEN LET targetShape == TargetShape(problemType, targetData.rows)
                updatedLayers == AutofixLayers(layers, targetShape, problemType)
            IN  /\ layers' = updatedLayers
                /\ modelConfigValue' =
                     [set |-> TRUE,
                      layers |-> ModelLayers(updatedLayers, Len(targetData.rows) > 0),
                      learningRate |-> hyperparameters.learningRate,
                      loss |-> IF problemType = "classification"
                               THEN IF targetShape > 2 THEN "sparseCategoricalCrossentropy"
                                    ELSE "binaryCrossentropy"
                               ELSE "meanSquaredError",
                      metrics |-> IF problemType = "classification" THEN "accuracy" ELSE "mae"]
                /\ modelConfig' = TRUE
       ELSE UNCHANGED <<layers, modelConfigValue, modelConfig>>
    /\ lastError' = "null"
    /\ errorType' = "null"
    /\ unitOp' = "autofix"
    /\ UNCHANGED <<impl, trainingState, speed, currentEpoch, currentBatch, totalEpochs,
                   trainingMetrics, modelPredictions, worker, trainingConfig, dataset,
                   demoVars, starts, workers, run, applied, teardown, cmds, limit, lastOp,
                   prep, inputShape, expectedOutputSize, shapeValidationResult, returned,
                   dataVars, hyperparameters, built>>

\* the training page's effect that copies the layers to the training store
SyncModelConfig ==
    /\ Len(layers) > 0 /\ dataset
    /\ modelConfigValue' =
         [set |-> TRUE,
          layers |-> ModelLayers(layers, Len(targetData.rows) > 0),
          learningRate |-> hyperparameters.learningRate,
          loss |-> IF problemType = "classification" THEN "sparseCategoricalCrossentropy"
                   ELSE "meanSquaredError",
          metrics |-> IF problemType = "classification" THEN "accuracy" ELSE "mae"]
    /\ modelConfig' = TRUE
    /\ unitOp' = "sync"
    /\ UNCHANGED <<impl, trainingState, speed, currentEpoch, currentBatch, totalEpochs,
                   trainingMetrics, modelPredictions, lastError, errorType, worker,
                   trainingConfig, dataset,
                   demoVars, starts, workers, run, applied, teardown, cmds, limit, lastOp,
                   prep, shapeVars, dataVars, hyperparameters, built>>

\* the name of a layer, such as layer_1; index 0 stands for a name without one
Name(base, index) == [base |-> base, index |-> index]

\* a layer of a tf.Sequential model
BuiltLayer(kind, units, activation, name, shaped) ==
    [kind |-> kind, units |-> units, activation |-> activation, name |-> name,
     inputShape |-> shaped]

\* the forEach of buildModelFromHyperparameters over the first k layers
RECURSIVE AddLayers(_, _)
AddLayers(ls, k) ==
    IF k = 0 THEN <<>>
    ELSE LET layer == ls[k]
             sequential == AddLayers(ls, k - 1)
         IN  IF layer.type = "Dense" /\ layer.units # 0
             THEN Append(sequential, BuiltLayer("dense", layer.units, LowerCase(layer.activation),
                                           Name("layer", k), k = 1))
             ELSE IF layer.type = "Conv2D" /\ layer.filters # 0 /\ layer.kernelSize # 0
             THEN Append(sequential, BuiltLayer("conv2d", layer.filters, LowerCase(layer.activation),
                                           Name("layer", k), k = 1))
             ELSE IF layer.type = "Flatten"
             THEN Append(sequential, BuiltLayer("flatten", 0, "none", Name("layer", k), FALSE))
             ELSE sequential

\* buildModelFromHyperparameters of the hyperparameters page
BuildModelFromHyperparameters(ls) ==
    IF Len(ls) = 0
    THEN <<BuiltLayer("dense", 10, "relu", Name("default_layer", 1), TRUE),
           BuiltLayer("dense", 1, "linear", Name("default_output", 0), FALSE)>>
    ELSE LET sequential == AddLayers(ls, Len(ls))
         IN  IF Len(sequential) = 0
             THEN <<BuiltLayer("dense", 10, "relu", Name("fallback_layer", 0), TRUE)>>
             ELSE sequential

\* the forEach of the worker's createModel over the first k layer configurations
RECURSIVE AddDenseLayers(_, _)
AddDenseLayers(configs, k) ==
    IF k = 0 THEN <<>>
    ELSE LET layerConfig == configs[k]
             sequential == AddDenseLayers(configs, k - 1)
         IN  IF layerConfig.type = "dense"
             THEN Append(sequential, BuiltLayer("dense", layerConfig.units, layerConfig.activation,
                                           Name("layer", k), k = 1 /\ layerConfig.inputShape))
             ELSE sequential

\* whether tf.Sequential accepts the layers: add() of a first layer without an
\* input shape and compile() of a model without layers are left to the library
MayThrow(sequential) == IF Len(sequential) = 0 THEN TRUE ELSE ~sequential[1].inputShape

\* visualizeArchitecture building its model on the hyperparameters page
BuildModel ==
    /\ LET sequential == BuildModelFromHyperparameters(layers)
       IN  \E threw \in BOOLEAN :
               /\ threw => MayThrow(sequential)
               /\ built' = [by |-> "page", threw |-> threw,
                            layers |-> IF threw THEN <<>> ELSE sequential]
    /\ unitOp' = "build"
    /\ UNCHANGED <<trainVars, prep, shapeVars, dataVars, hyperparameters, modelConfigValue>>

\* createModel of the worker on the configuration the store holds
CreateModel ==
    /\ modelConfigValue.set
    /\ LET sequential == AddDenseLayers(modelConfigValue.layers, Len(modelConfigValue.layers))
       IN  \E threw \in BOOLEAN :
               /\ threw => MayThrow(sequential)
               /\ built' = [by |-> "worker", threw |-> threw,
                            layers |-> IF threw THEN <<>> ELSE sequential]
    /\ unitOp' = "createModel"
    /\ UNCHANGED <<trainVars, prep, shapeVars, dataVars, hyperparameters, modelConfigValue>>

\* -------------------------------------------------- activation extraction
\* what happens when the activations of one layer are extracted: predict
\* succeeds; it throws and layer.outputShape can be read; it throws and
\* outputShape throws as well; it throws an error that mentions disposal
Outcomes == {"ok", "fails", "shapeless", "disposed"}
Entry(i, filled) == [layerId |-> i - 1, filled |-> filled]
NoExtraction == [outcomes |-> <<>>, result |-> <<>>, posted |-> FALSE, op |-> "none"]

\* the loop of the worker's sendActivations from layer i on: the catch of a
\* layer only logs
RECURSIVE SendActivationsFrom(_, _)
SendActivationsFrom(outs, i) ==
    IF i > Len(outs) THEN <<>>
    ELSE IF outs[i] = "ok" THEN <<Entry(i, "data")>> \o SendActivationsFrom(outs, i + 1)
    ELSE SendActivationsFrom(outs, i + 1)

\* the loop of the monitor's getLayerActivations from layer i on
RECURSIVE GetLayerActivationsFrom(_, _)
GetLayerActivationsFrom(outs, i) ==
    IF i > Len(outs) THEN <<>>
    ELSE IF outs[i] = "ok"
    THEN <<Entry(i, "data")>> \o GetLayerActivationsFrom(outs, i + 1)
    ELSE IF outs[i] = "fails"
    THEN <<Entry(i, "zeros")>> \o GetLayerActivationsFrom(outs, i + 1)
    ELSE IF outs[i] = "shapeless" THEN GetLayerActivationsFrom(outs, i + 1)
    ELSE <<>>

\* sendActivations of the worker: the message is posted when a layer yielded
SendActivations ==
    /\ activations.op = "none"
    /\ LET result == SendActivationsFrom(activations.outcomes, 1)
       IN  activations' = [activations EXCEPT !.result = result, !.posted = Len(result) > 0,
                                              !.op = "sendActivations"]
    /\ unitOp' = "sendActivations"
    /\ UNCHANGED <<trainVars, prep, shapeVars, buildVars, problemType, targetData,
                   trainingDataset>>

\* getLayerActivations of the monitor: each entry is one updateLayerActivations
GetLayerActivations ==
    /\ activations.op = "none"
    /\ activations' = [activations EXCEPT
                          !.result = GetLayerActivationsFrom(activations.outcomes, 1),
                          !.op = "getLayerActivations"]
    /\ unitOp' = "getLayerActivations"
    /\ UNCHANGED <<trainVars, prep, shapeVars, buildVars, problemType, targetData,
                   trainingDataset>>

NoActivations == activations = NoExtraction

\* ---------------------------------------------------------- initial values
\* no configuration has reached the worker, and the store's dataset is one the
\* load paths of the page produce
NoSplit == prep = NoPrep /\ trainingDataset = [xs |-> NumSamples, ys |-> NumSamples]
NoShape ==
    /\ layers = <<>>
    /\ inputShape = 1
    /\ expectedOutputSize = 1
    /\ shapeValidationResult = NoResult
    /\ returned = <<>>
NoData ==
    /\ problemType = "regression"
    /\ targetData = NoDataset

NoBuild ==
    /\ hyperparameters = DefaultHyperparameters
    /\ modelConfigValue = NoModelConfig
    /\ built = NoModel

InitUnits ==
    /\ NoSplit
    /\ NoActivations
    /\ NoShape
    /\ NoData
    /\ NoBuild
    /\ unitOp = "none"

\* ------------------------------------------------------------ specification
Init ==
    /\ impl \in Stores
    /\ trainingState = "idle"
    /\ speed \in Speeds                     \* persisted with the store
    /\ currentEpoch = 0
    /\ currentBatch = 0
    /\ totalEpochs = 100
    /\ trainingMetrics = <<>>
    /\ modelPredictions = {}
    /\ lastError = "null"
    /\ errorType = "null"
    /\ worker = NoWorker
    /\ trainingConfig \in [epochs : 1..MaxEpochs]   \* persisted with the store
    /\ dataset = FALSE
    /\ modelConfig = FALSE
    /\ model = "null"
    /\ demoModel = "null"
    /\ teardown = [raised |-> FALSE, again |-> {}]
    /\ starts = <<>>
    /\ workers = [id \in WorkerIds |-> DeadWorker]
    /\ run = 0
    /\ applied = 0
    /\ cmds = 0
    /\ limit = MaxCmds
    /\ lastOp = "create"
    /\ InitUnits

Next ==
    \/ SetDataset
    \/ SetModelConfig
    \/ SetSpeed
    \/ StartTrainingOscar
    \/ StartTrainingLegacy
    \/ StartTrainingLegacyInit
    \/ StartTrainingLegacyFinish
    \/ Tick
    \/ PauseTraining
    \/ ResumeTraining
    \/ StopTrainingOscar
    \/ StopTrainingLegacy
    \/ StepBatch
    \/ StepEpoch
    \/ ScrubToEpoch
    \/ InitializeWorkerOscar
    \/ InitializeWorkerLegacy
    \/ DisposeWorker
    \/ \E id \in WorkerIds : StoreOnMessageOscar(id)
    \/ \E id \in WorkerIds : StoreOnMessageLegacy(id)
    \/ \E id \in WorkerIds : WorkerReceive(id)
    \/ \E id \in WorkerIds : WorkerContinue(id)

Spec == Init /\ [][Next]_vars

\* every command of Spec, over runs of one epoch
InitOneEpoch == Init /\ trainingConfig.epochs = 1

SpecOneEpoch == InitOneEpoch /\ [][Next]_vars

\* the start, pause and resume commands alone, to a greater depth
InitControl ==
    /\ impl \in Stores
    /\ trainingState = "idle"
    /\ speed \in Speeds
    /\ currentEpoch = 0
    /\ currentBatch = 0
    /\ totalEpochs = 100
    /\ trainingMetrics = <<>>
    /\ modelPredictions = {}
    /\ lastError = "null"
    /\ errorType = "null"
    /\ worker = NoWorker
    /\ trainingConfig \in [epochs : 1..MaxControlEpochs]
    /\ dataset = FALSE
    /\ modelConfig = FALSE
    /\ model = "null"
    /\ demoModel = "null"
    /\ teardown = [raised |-> FALSE, again |-> {}]
    /\ starts = <<>>
    /\ workers = [id \in WorkerIds |-> DeadWorker]
    /\ run = 0
    /\ applied = 0
    /\ cmds = 0
    /\ limit = MaxControlCmds
    /\ lastOp = "create"
    /\ InitUnits

NextControl ==
    \/ SetDataset
    \/ SetModelConfig
    \/ StartTrainingOscar
    \/ StartTrainingLegacy
    \/ StartTrainingLegacyInit
    \/ StartTrainingLegacyFinish
    \/ Tick
    \/ PauseTraining
    \/ ResumeTraining
    \/ InitializeWorkerOscar
    \/ \E id \in WorkerIds : StoreOnMessageOscar(id)
    \/ \E id \in WorkerIds : StoreOnMessageLegacy(id)
    \/ \E id \in WorkerIds : WorkerReceive(id)
    \/ \E id \in WorkerIds : WorkerContinue(id)

SpecControl == InitControl /\ [][NextControl]_vars

\* start, stop and the disposals of the worker, the monitor and the page, for
\* runs of one epoch at real-time speed
InitDispose ==
    /\ impl \in Stores
    /\ trainingState = "idle"
    /\ speed = RealTime
    /\ currentEpoch = 0
    /\ currentBatch = 0
    /\ totalEpochs = 100
    /\ trainingMetrics = <<>>
    /\ modelPredictions = {}
    /\ lastError = "null"
    /\ errorType = "null"
    /\ worker = NoWorker
    /\ trainingConfig = [epochs |-> 1]
    /\ dataset = FALSE
    /\ modelConfig = FALSE
    /\ model = "null"
    /\ demoModel = "null"
    /\ teardown = [raised |-> FALSE, again |-> {}]
    /\ starts = <<>>
    /\ workers = [id \in WorkerIds |-> DeadWorker]
    /\ run = 0
    /\ applied = 0
    /\ cmds = 0
    /\ limit = MaxDisposeCmds
    /\ lastOp = "create"
    /\ InitUnits

NextDispose ==
    \/ SetDataset
    \/ SetModelConfig
    \/ StartTrainingOscar
    \/ StartTrainingLegacy
    \/ StartTrainingLegacyInit
    \/ StartTrainingLegacyFinish
    \/ Tick
    \/ StopTrainingOscar
    \/ StopTrainingLegacy
    \/ InitializeWorkerOscar
    \/ DisposeWorker
    \/ VisualizeArchitecture
    \/ DisposeDemoModel
    \/ MonitorDispose
    \/ \E id \in WorkerIds : StoreOnMessageOscar(id)
    \/ \E id \in WorkerIds : StoreOnMessageLegacy(id)
    \/ \E id \in WorkerIds : WorkerReceive(id)
    \/ \E id \in WorkerIds : WorkerContinue(id)

SpecDispose == InitDispose /\ [][NextDispose]_vars

\* starts of either store while the training configuration is edited, at
\* real-time speed
InitConfig ==
    /\ impl \in Stores
    /\ trainingState = "idle"
    /\ speed = RealTime
    /\ currentEpoch = 0
    /\ currentBatch = 0
    /\ totalEpochs = 100
    /\ trainingMetrics = <<>>
    /\ modelPredictions = {}
    /\ lastError = "null"
    /\ errorType = "null"
    /\ worker = NoWorker
    /\ trainingConfig \in [epochs : 1..MaxControlEpochs]
    /\ dataset = TRUE
    /\ modelConfig = TRUE
    /\ model = "null"
    /\ demoModel = "null"
    /\ teardown = [raised |-> FALSE, again |-> {}]
    /\ starts = <<>>
    /\ workers = [id \in WorkerIds |-> DeadWorker]
    /\ run = 0
    /\ applied = 0
    /\ cmds = 0
    /\ limit = MaxEditCmds
    /\ lastOp = "create"
    /\ InitUnits

NextConfig ==
    \/ SetTrainingConfig
    \/ StartTrainingOscar
    \/ StartTrainingLegacy
    \/ StartTrainingLegacyInit
    \/ StartTrainingLegacyFinish
    \/ Tick
    \/ InitializeWorkerOscar
    \/ \E id \in WorkerIds : StoreOnMessageOscar(id)
    \/ \E id \in WorkerIds : StoreOnMessageLegacy(id)
    \/ \E id \in WorkerIds : WorkerReceive(id)
    \/ \E id \in WorkerIds : WorkerContinue(id)

SpecConfig == InitConfig /\ [][NextConfig]_vars

\* start and pause of either store, with the speed slider of the training controls
InitSpeed ==
    /\ impl \in Stores
    /\ trainingState = "idle"
    /\ speed \in Speeds
    /\ currentEpoch = 0
    /\ currentBatch = 0
    /\ totalEpochs = 100
    /\ trainingMetrics = <<>>
    /\ modelPredictions = {}
    /\ lastError = "null"
    /\ errorType = "null"
    /\ worker = NoWorker
    /\ trainingConfig = [epochs |-> 1]
    /\ dataset = TRUE
    /\ modelConfig = TRUE
    /\ model = "null"
    /\ demoModel = "null"
    /\ teardown = [raised |-> FALSE, again |-> {}]
    /\ starts = <<>>
    /\ workers = [id \in WorkerIds |-> DeadWorker]
    /\ run = 0
    /\ applied = 0
    /\ cmds = 0
    /\ limit = MaxEditCmds
    /\ lastOp = "create"
    /\ InitUnits

NextSpeed ==
    \/ HandleSpeedChange
    \/ StartTrainingOscar
    \/ StartTrainingLegacy
    \/ StartTrainingLegacyInit
    \/ StartTrainingLegacyFinish
    \/ Tick
    \/ PauseTraining
    \/ InitializeWorkerOscar
    \/ \E id \in WorkerIds : StoreOnMessageOscar(id)
    \/ \E id \in WorkerIds : StoreOnMessageLegacy(id)
    \/ \E id \in WorkerIds : WorkerReceive(id)
    \/ \E id \in WorkerIds : WorkerContinue(id)

SpecSpeed == InitSpeed /\ [][NextSpeed]_vars

\* starts of either store on a training dataset of any row counts
DatasetShapes == [xs : {0, NumSamples}, ys : {0, 2, NumSamples}]
InitData ==
    /\ impl \in Stores
    /\ trainingState = "idle"
    /\ speed = RealTime
    /\ currentEpoch = 0
    /\ currentBatch = 0
    /\ totalEpochs = 100
    /\ trainingMetrics = <<>>
    /\ modelPredictions = {}
    /\ lastError = "null"
    /\ errorType = "null"
    /\ worker = NoWorker
    /\ trainingConfig = [epochs |-> 1]
    /\ dataset = TRUE
    /\ modelConfig = TRUE
    /\ model = "null"
    /\ demoModel = "null"
    /\ teardown = [raised |-> FALSE, again |-> {}]
    /\ starts = <<>>
    /\ workers = [id \in WorkerIds |-> DeadWorker]
    /\ run = 0
    /\ applied = 0
    /\ cmds = 0
    /\ limit = MaxDataCmds
    /\ lastOp = "create"
    /\ prep = NoPrep
    /\ trainingDataset \in DatasetShapes
    /\ NoActivations
    /\ NoShape
    /\ problemType = "regression"
    /\ targetData = NoDataset
    /\ NoBuild
    /\ unitOp = "none"

NextData ==
    \/ StartTrainingOscar
    \/ StartTrainingLegacy
    \/ StartTrainingLegacyInit
    \/ StartTrainingLegacyFinish
    \/ Tick
    \/ InitializeWorkerOscar
    \/ \E id \in WorkerIds : StoreOnMessageOscar(id)
    \/ \E id \in WorkerIds : StoreOnMessageLegacy(id)
    \/ \E id \in WorkerIds : WorkerReceiveData(id)
    \/ \E id \in WorkerIds : WorkerContinue(id)

SpecData == InitData /\ [][NextData]_vars

\* runs of one epoch at real-time speed that end with a stop: the stop is the
\* last command, issued when no startTraining call is waiting for its timers
StopTrainingLast ==
    /\ cmds = limit - 1
    /\ starts = <<>>
    /\ (StopTrainingOscar \/ StopTrainingLegacy)

InitStop ==
    /\ impl \in Stores
    /\ trainingState = "idle"
    /\ speed = RealTime
    /\ currentEpoch = 0
    /\ currentBatch = 0
    /\ totalEpochs = 100
    /\ trainingMetrics = <<>>
    /\ modelPredictions = {}
    /\ lastError = "null"
    /\ errorType = "null"
    /\ worker = NoWorker
    /\ trainingConfig = [epochs |-> 1]
    /\ dataset = TRUE
    /\ modelConfig = TRUE
    /\ model = "null"
    /\ demoModel = "null"
    /\ teardown = [raised |-> FALSE, again |-> {}]
    /\ starts = <<>>
    /\ workers = [id \in WorkerIds |-> DeadWorker]
    /\ run = 0
    /\ applied = 0
    /\ cmds = 0
    /\ limit \in 1..MaxStopCmds
    /\ lastOp = "create"
    /\ InitUnits

NextStop ==
    \/ (cmds < limit - 1 /\ StartTrainingOscar)
    \/ (cmds < limit - 1 /\ StartTrainingLegacy)
    \/ StartTrainingLegacyInit
    \/ StartTrainingLegacyFinish
    \/ Tick
    \/ (cmds < limit - 1 /\ InitializeWorkerOscar)
    \/ StopTrainingLast
    \/ \E id \in WorkerIds : StoreOnMessageOscar(id)
    \/ \E id \in WorkerIds : StoreOnMessageLegacy(id)
    \/ \E id \in WorkerIds : WorkerReceive(id)
    \/ \E id \in WorkerIds : WorkerContinue(id)

SpecStop == InitStop /\ [][NextStop]_vars

\* the same runs with stops and starts in any order
NextRestart ==
    \/ StartTrainingOscar
    \/ StartTrainingLegacy
    \/ StartTrainingLegacyInit
    \/ StartTrainingLegacyFinish
    \/ Tick
    \/ StopTrainingOscar
    \/ StopTrainingLegacy
    \/ InitializeWorkerOscar
    \/ \E id \in WorkerIds : StoreOnMessageOscar(id)
    \/ \E id \in WorkerIds : StoreOnMessageLegacy(id)
    \/ \E id \in WorkerIds : WorkerReceive(id)
    \/ \E id \in WorkerIds : WorkerContinue(id)

SpecRestart == InitStop /\ [][NextRestart]_vars

\* the store before anything is done with it, for the parts checked on their own
InitStoreWith(error, type, data) ==
    /\ impl = "oscar"
    /\ trainingState = "idle"
    /\ speed = RealTime
    /\ currentEpoch = 0
    /\ currentBatch = 0
    /\ totalEpochs = 100
    /\ trainingMetrics = <<>>
    /\ modelPredictions = {}
    /\ lastError = error
    /\ errorType = type
    /\ worker = NoWorker
    /\ trainingConfig = [epochs |-> 1]
    /\ dataset = data
    /\ modelConfig = FALSE
    /\ model = "null"
    /\ demoModel = "null"
    /\ teardown = [raised |-> FALSE, again |-> {}]
    /\ starts = <<>>
    /\ workers = [id \in WorkerIds |-> DeadWorker]
    /\ run = 0
    /\ applied = 0
    /\ cmds = 0
    /\ limit = 0
    /\ lastOp = "create"

InitStore == InitStoreWith("null", "null", FALSE)

\* one extraction of activations, by the worker or by the monitor, from a model
\* whose layers behave in any way
InitActivations ==
    /\ InitStore
    /\ prep = NoPrep
    /\ trainingDataset = [xs |-> NumSamples, ys |-> NumSamples]
    /\ NoShape
    /\ NoData
    /\ NoBuild
    /\ unitOp = "none"
    /\ activations \in {[NoExtraction EXCEPT !.outcomes = outs] : outs \in UNION {[1..n -> Outcomes] : n \in 1..MaxLayers}}

NextActivations ==
    \/ SendActivations
    \/ GetLayerActivations

SpecActivations == InitActivations /\ [][NextActivations]_vars

\* the worker's data preparation on its own: configurations of any size and split
InitSplit == InitStore /\ InitUnits

NextSplit ==
    \/ \E n \in 1..NumSamples, pct \in SplitPcts : PrepareData(n, pct)
    \/ StopData

SpecSplit == InitSplit /\ [][NextSplit]_vars

\* the shape validator on its own: any layer list, input size and expected size
InitShape ==
    /\ InitStore
    /\ NoSplit
    /\ NoActivations
    /\ NoData
    /\ NoBuild
    /\ layers \in LayerLists
    /\ inputShape \in InputSizes
    /\ expectedOutputSize \in ExpectedSizes
    /\ shapeValidationResult = NoResult
    /\ returned = <<>>
    /\ unitOp = "none"

NextShape ==
    \/ Validate
    \/ \E k \in 1..Len(shapeValidationResult.suggestions) : ExecuteSuggestion(k)
    \/ HandleApplyShapeFixes

SpecShape == InitShape /\ [][NextShape]_vars

\* getExpectedOutputSize on its own: any dataset and either problem type
InitOutputSize ==
    /\ InitStore
    /\ NoSplit
    /\ NoActivations
    /\ NoShape
    /\ NoBuild
    /\ problemType \in {"regression", "classification"}
    /\ targetData \in Datasets
    /\ unitOp = "none"

NextOutputSize == ExpectedOutputSize

SpecOutputSize == InitOutputSize /\ [][NextOutputSize]_vars

\* the training page after a training error: any layers, labels and problem type
AutofixLayerLists ==
    UNION {{ls \in [1..n -> UNION {{DenseLayer(id, 0, "ReLU"), DenseLayer(id, 10, "Linear"),
                                     FlattenLayer(id)} : id \in 1..n}] :
                \A i \in 1..n : ls[i].id = i} : n \in 0..MaxLayers}
LabelledDatasets ==
    {d \in Datasets : d.dataset /\ \A i \in 1..Len(d.rows) : d.rows[i] # "undefined"}

InitAutofix ==
    /\ \E type \in {"shape_mismatch", "general"} : InitStoreWith("error", type, TRUE)
    /\ NoSplit
    /\ NoActivations
    /\ layers \in AutofixLayerLists
    /\ inputShape = 1
    /\ expectedOutputSize = 1
    /\ shapeValidationResult = NoResult
    /\ returned = <<>>
    /\ problemType \in {"regression", "classification"}
    /\ targetData \in LabelledDatasets
    /\ hyperparameters \in {DefaultHyperparameters,
                             [DefaultHyperparameters EXCEPT !.learningRate = 10]}
    /\ modelConfigValue = NoModelConfig
    /\ built = NoModel
    /\ unitOp = "none"

NextAutofix == HandleAutofix

SpecAutofix == InitAutofix /\ [][NextAutofix]_vars

\* the two model builders: any declared layers, built on the page, or copied
\* to the training store and built by the worker
BuildLayerLists ==
    UNION {{ls \in [1..n -> UNION {{DenseLayer(id, 0, "ReLU"), DenseLayer(id, 10, "ReLU"),
                                     FlattenLayer(id), Conv2DLayer(id, 0, 0),
                                     Conv2DLayer(id, 8, 3)} : id \in 1..n}] :
                \A i \in 1..n : ls[i].id = i} : n \in 0..MaxLayers}

InitBuild ==
    /\ InitStoreWith("null", "null", TRUE)
    /\ NoSplit
    /\ NoActivations
    /\ layers \in BuildLayerLists
    /\ inputShape = 1
    /\ expectedOutputSize = 1
    /\ shapeValidationResult = NoResult
    /\ returned = <<>>
    /\ problemType = "regression"
    /\ targetData \in {[dataset |-> TRUE, rows |-> <<>>], [dataset |-> TRUE, rows |-> <<"a">>]}
    /\ NoBuild
    /\ unitOp = "none"

NextBuild ==
    \/ BuildModel
    \/ SyncModelConfig
    \/ CreateModel

SpecBuild == InitBuild /\ [][NextBuild]_vars

TypeOK ==
    /\ trainingState \in TrainingStates
    /\ speed \in Speeds
    /\ worker \in {NoWorker} \cup WorkerIds
    /\ cmds \in 0..limit

\* ---------------------------------------------------------------- properties
StartIssued == lastOp' = "startTraining" /\ cmds' = cmds + 1
StartAccepted == run' = run + 1
ConfigAbsent == ~dataset \/ (impl = "oscar" /\ ~modelConfig)
MessageApplied == lastOp \in {"onmessage:progress", "onmessage:metrics",
                              "onmessage:predictions", "onmessage:complete",
                              "onmessage:paused", "onmessage:error"}
LoopTasks(w) == {i \in 1..Len(w.tasks) : w.tasks[i].kind = "loop"}

\* C1: a start issued while the dataset or the model config is absent is rejected
\* on the spot: the training state is left as it was (idle stays idle), no
\* message is queued for any worker and no worker is created or torn down.
C1_StartRejectedWithoutConfig ==
    [][(StartIssued /\ ConfigAbsent) =>
          /\ trainingState' = trainingState
          /\ workers' = workers
          /\ worker' = worker
          /\ starts' = starts
          /\ run' = run]_vars

\* C1 witness: the oscar store holds a worker and a dataset, has no model config,
\* and has just turned a start down
C1_Witness ==
    /\ lastOp = "startTraining"
    /\ worker # NoWorker
    /\ dataset
    /\ ~modelConfig
    /\ lastError = "No model configuration available"
    /\ trainingState = "idle"

\* C2: whenever a start is accepted the metrics and predictions are empty and
\* currentEpoch and currentBatch are 0 (the activations are never filled: the
\* worker sends none).
C2_StartClearsRunState ==
    [][StartAccepted =>
          /\ trainingMetrics' = <<>>
          /\ modelPredictions' = {}
          /\ currentEpoch' = 0
          /\ currentBatch' = 0]_vars

\* C3: an accepted start runs on a worker that has done nothing yet, and no
\* message of a loop of an earlier run is applied to the store.
C3_FreshWorkerPerRun ==
    /\ [][StartAccepted => workers[worker'] = FreshWorker]_vars
    /\ [](MessageApplied => applied = run)

\* C4: a pause command issued while training does not itself make the store
\* paused; only the worker's paused message does.
C4_PausedOnlyOnAcknowledgement ==
    [][(trainingState = "training" /\ lastOp' = "pauseTraining" /\ cmds' = cmds + 1)
          => trainingState' # "paused"]_vars

\* C5: once the worker has received a pause while an epoch was running, no
\* epoch begins in that worker until it receives another command.
C5_NoEpochAfterPause == \A id \in WorkerIds : ~workers[id].lateEpoch

\* C6: after a resume the worker's loop never runs an epoch that was already
\* completed in this run.
C6_NoEpochReplayed ==
    \A id \in WorkerIds : \A i \in LoopTasks(workers[id]) :
        (workers[id].resumed /\ workers[id].tasks[i].pc \in {"batch", "yield"})
            => workers[id].tasks[i].epoch \notin workers[id].done

\* C7: a stop issued from training or paused leaves the store idle, with both
\* counters 0 and no metrics, and the worker it held terminated.
C7_StopResetsEverything ==
    [][(trainingState \in {"training", "paused"} /\ lastOp' = "stopTraining"
        /\ cmds' = cmds + 1) =>
          /\ trainingState' = "idle"
          /\ currentEpoch' = 0
          /\ currentBatch' = 0
          /\ trainingMetrics' = <<>>
          /\ worker' = NoWorker
          /\ \A id \in WorkerIds : workers[id].alive /\ id = worker => ~workers'[id].alive]_vars

\* the store takes from worker id the complete message of a loop that ran out of epochs
CompleteReceived(id) ==
    /\ workers[id].outbox # <<>>
    /\ Head(workers[id].outbox).type = "complete"
    /\ Head(workers[id].outbox).info = "exhausted"
    /\ workers'[id].outbox = Tail(workers[id].outbox)
    /\ lastOp' = "onmessage:complete"

\* C8: a loop that runs out of epochs sends one complete message, not two, and
\* when the store receives it the training state becomes completed.
C8_CompleteMakesCompleted ==
    /\ [][\A id \in WorkerIds : CompleteReceived(id) => trainingState' = "completed"]_vars
    /\ [](\A id \in WorkerIds : \A j, k \in 1..Len(workers[id].outbox) :
             (j # k /\ workers[id].outbox[j].type = "complete"
                    /\ workers[id].outbox[k].type = "complete")
                 => workers[id].outbox[j].run # workers[id].outbox[k].run)

\* C9: when an error message is received the store records a message and a
\* class for it and rests in idle or error.
C9_ErrorRecordedAndClassified ==
    lastOp = "onmessage:error" =>
        /\ lastError # "null"
        /\ errorType \in {"shape_mismatch", "general"}
        /\ trainingState \in {"idle", "error"}

\* C10: the worker sends no error message for an epoch that it aborted at a
\* yield point because of a pause or a stop.
C10_InterruptionIsNotAnError ==
    \A id \in WorkerIds : \A k \in 1..Len(workers[id].outbox) :
        ~(workers[id].outbox[k].type = "error"
          /\ workers[id].outbox[k].info = "Training paused or stopped")

StepTasks(w) == {i \in 1..Len(w.tasks) : w.tasks[i].kind = "step"}
StepIssued == lastOp' \in {"step:batch", "step:epoch"} /\ cmds' = cmds + 1

\* C11: a step command issued at a speed other than 0, or while the store is
\* training, never starts a training step in the worker, and the command
\* itself changes neither counter.
C11_StepDisallowed ==
    /\ [][StepIssued => currentEpoch' = currentEpoch /\ currentBatch' = currentBatch]_vars
    /\ [](\A id \in WorkerIds : \A i \in StepTasks(workers[id]) :
             workers[id].tasks[i].allowed)

\* a step of worker id in which one of its manual steps, all of them issued
\* while stepping was allowed, came to its end
StepEnded(id) ==
    /\ lastOp' = "worker"
    /\ workers[id].alive /\ workers'[id].alive
    /\ \A i \in StepTasks(workers[id]) : workers[id].tasks[i].allowed
    /\ Cardinality(StepTasks(workers'[id])) < Cardinality(StepTasks(workers[id]))

\* C12: at speed 0 a batch step trains one batch and no more, and every step,
\* of a batch or of an epoch, ends with the worker reporting paused, an epoch
\* step after its epoch is complete.
C12_StepAdvancesOnce ==
    /\ [](\A id \in WorkerIds : \A i \in StepTasks(workers[id]) :
             (workers[id].tasks[i].allowed /\ workers[id].tasks[i].step = "batch")
                => (workers[id].tasks[i].batch = 0
                    /\ workers[id].tasks[i].pc \in {"batch", "yield"}))
    /\ [][\A id \in WorkerIds : StepEnded(id) =>
             /\ Len(workers'[id].outbox) = Len(workers[id].outbox) + 1
             /\ workers'[id].outbox[Len(workers'[id].outbox)].type = "paused"
             /\ \A i \in StepTasks(workers[id]) :
                    workers[id].tasks[i].step = "epoch" => workers[id].tasks[i].pc = "frame"]_vars

\* C13: while the store stays training in one run currentEpoch never goes down,
\* and nothing but a start or a stop takes it from another value to 0.
C13_EpochMonotone ==
    /\ [][(trainingState = "training" /\ trainingState' = "training" /\ run' = run)
            => currentEpoch' >= currentEpoch]_vars
    /\ [][(currentEpoch # 0 /\ currentEpoch' = 0)
            => lastOp' \in {"startTraining", "startTraining:finish", "stopTraining"}]_vars

\* C14: the metrics points of one run carry strictly increasing epoch numbers
\* in the order in which they were appended: one point for an epoch, later
\* epochs after earlier ones, no epoch number twice.
C14_MetricsOrdered ==
    \A j, k \in 1..Len(trainingMetrics) :
        (j < k /\ trainingMetrics[j].run = trainingMetrics[k].run)
            => trainingMetrics[j].epoch < trainingMetrics[k].epoch

\* one start at real-time speed and no other command since the store was made
\* (the oscar store needs its initializeWorker first)
OneStartOnly ==
    /\ run = 1
    /\ speed = RealTime
    /\ cmds = IF impl = "oscar" THEN 2 ELSE 1

\* C15: a run of n epochs at speed 1 that is neither paused nor stopped delivers
\* n metrics messages with the epochs 0..n-1 in this order and then a complete
\* message whose finalEpoch is n-1 (the claim's instance is n = 5).
C15_FullRunMessages ==
    [][\A id \in WorkerIds : (OneStartOnly /\ CompleteReceived(id)) =>
          /\ Head(workers[id].outbox).epoch = trainingConfig.epochs - 1
          /\ trainingMetrics = [i \in 1..trainingConfig.epochs |-> [epoch |-> i - 1, run |-> 1]]]_vars

\* C16: at speed 0, as long as no step command is issued (SpecControl has
\* none), no worker trains a batch or sends complete, and the store's
\* currentEpoch stays 0.
C16_ManualModeHalts ==
    speed = 0 =>
        /\ currentEpoch = 0
        /\ \A id \in WorkerIds :
              /\ \A i \in 1..Len(workers[id].tasks) : workers[id].tasks[i].pc \notin FitPcs
              /\ \A k \in 1..Len(workers[id].outbox) : workers[id].outbox[k].type # "complete"

\* C17: every predictions message a worker holds has index i at position i and
\* as many entries as the dataset sent to the worker has rows.
C17_PredictionsCoverDataset ==
    \A id \in WorkerIds : \A k \in 1..Len(workers[id].outbox) :
        LET m == workers[id].outbox[k] IN
        m.type = "predictions" =>
            /\ \A i \in 1..Len(m.indices) : m.indices[i] = i - 1
            /\ Len(m.indices) = NumSamples

\* C18: among the messages one epoch (one model.fit) has posted, the metrics
\* message comes after the progress message of every batch, in batch order, and
\* nothing but the predictions message comes after the metrics message.
C18_EpochMessageOrder ==
    \A id \in WorkerIds : \A i \in 1..Len(workers[id].tasks) :
        LET sent == workers[id].tasks[i].sent IN
        \A k \in 1..Len(sent) :
            /\ k <= NumBatches => sent[k] = [type |-> "progress", batch |-> k - 1]
            /\ k = NumBatches + 1 => sent[k].type = "metrics"
            /\ k = NumBatches + 2 => sent[k].type = "predictions"
            /\ k <= NumBatches + 2

\* C18 witness: an epoch has posted all its messages
C18_Witness ==
    \E id \in WorkerIds : \E i \in 1..Len(workers[id].tasks) :
        Len(workers[id].tasks[i].sent) = NumBatches + 2

\* C19: a pause command changes the training state only from training, and a
\* resume command only from paused; in every other state they leave it alone.
C19_OnlyListedCommandsChangeState ==
    [][(cmds' = cmds + 1 /\ trainingState' # trainingState) =>
          /\ lastOp' = "pauseTraining" => trainingState = "training"
          /\ lastOp' = "resumeTraining" => trainingState = "paused"]_vars

StopReceived(id) ==
    /\ lastOp' = "worker"
    /\ workers[id].alive
    /\ workers[id].inbox # <<>>
    /\ Head(workers[id].inbox).type = "stop"
    /\ workers'[id].inbox = Tail(workers[id].inbox)

C30_StepPayloadHasType ==
    \A id \in WorkerIds : \A k \in 1..Len(workers[id].inbox) :
        workers[id].inbox[k].type = "step" => workers[id].inbox[k].step \in {"batch", "epoch"}

\* C21: while a configuration is held, the training slice followed by the
\* validation slice is the dataset's rows in their original order, the training
\* slice being the first rows, and both slices can be read: no row is in both
\* slices or in neither.
C21_SplitPartitionsRows ==
    prep.held =>
        /\ ~prep.trainingData.null /\ ~prep.trainingData.disposed
        /\ ~prep.validationData.disposed
        /\ prep.trainingData.rows \o prep.validationData.rows = [i \in 1..prep.n |-> i]

\* the issues and the suggestions of one type in the page's validation result
IssuesOf(type) ==
    {k \in 1..Len(shapeValidationResult.issues) : shapeValidationResult.issues[k].type = type}
SuggestionsOf(type) ==
    {k \in 1..Len(shapeValidationResult.suggestions) :
        shapeValidationResult.suggestions[k].type = type}
Validated == unitOp = "validate" /\ Len(layers) > 0
LastUnits == layers[Len(layers)].units

C23_ExpectedOutputSize ==
    unitOp = "outputSize" =>
        /\ problemType = "regression" => expectedOutputSize = 1
        /\ (problemType = "classification" /\ targetData.dataset) =>
              expectedOutputSize = IF Cardinality(UniqueValues(targetData.rows)) = 2
                                   THEN 1
                                   ELSE Cardinality(UniqueValues(targetData.rows))

\* C24: once all suggestions of a validation have been applied to the list that
\* was validated, validating the list again with the same input size and
\* expected output size reports no output_mismatch and no input_mismatch.
C24_FixesResolveMismatches ==
    unitOp = "apply" =>
        LET again == ValidateModelShape(layers, inputShape, expectedOutputSize)
        IN  \A k \in 1..Len(again.issues) :
                again.issues[k].type \notin {"output_mismatch", "input_mismatch"}

Bottlenecks ==
    {i \in 2..(Len(layers) - 1) :
        /\ layers[i].type = "Dense" /\ layers[i - 1].type = "Dense"
        /\ 10 * layers[i].units < layers[i - 1].units
        /\ layers[i].units < 16}

\* C26: after validate, the layer_mismatch issues are one for each interior
\* dense layer with fewer than 10% of the units of the dense layer right before
\* it and fewer than 16 units, and none for any other layer; each comes with
\* one suggestion, whose action gives that layer ceil(prevUnits * 0.25) units.
C26_BottlenecksFlagged ==
    Validated =>
        /\ {shapeValidationResult.issues[k].layerIndex + 1 : k \in IssuesOf("layer_mismatch")}
              = Bottlenecks
        /\ Cardinality(IssuesOf("layer_mismatch")) = Cardinality(Bottlenecks)
        /\ \A i \in Bottlenecks :
              \E k \in SuggestionsOf("adjust_layer") :
                LET fix == shapeValidationResult.suggestions[k]
                IN  /\ fix.layerIndex = i - 1
                    /\ fix.units = (layers[i - 1].units + 3) \div 4
                    /\ Action(fix).returned =
                         [layers EXCEPT ![i] = [@ EXCEPT !.units = (layers[i - 1].units + 3) \div 4]]
        /\ \A k \in SuggestionsOf("adjust_layer") :
              shapeValidationResult.suggestions[k].layerIndex > 0 =>
                  shapeValidationResult.suggestions[k].layerIndex + 1 \in Bottlenecks

\* a list with a bottleneck has been validated
C26_Witness ==
    /\ Validated
    /\ Bottlenecks # {}
    /\ IssuesOf("layer_mismatch") # {}

ClaimedOutputSize ==
    IF problemType = "regression" THEN 1
    ELSE IF Cardinality(UniqueClasses(targetData.rows)) = 2 THEN 1
    ELSE Cardinality(UniqueClasses(targetData.rows))

\* C28: after the auto-fix has been applied, the last layer has the expected
\* output size of the dataset as its units (1 for regression, 1 for exactly 2
\* classes, else the number of classes), and validating the layers against that
\* size reports no output_mismatch.
C28_AutofixMatchesExpectedSize ==
    (unitOp = "autofix" /\ modelConfigValue.set) =>
        /\ layers[Len(layers)].units = ClaimedOutputSize
        /\ LET result == ValidateModelShape(layers, inputShape, ClaimedOutputSize)
           IN  \A k \in 1..Len(result.issues) : result.issues[k].type # "output_mismatch"

\* C29: a model that has been built has at least one layer, and when the
\* declared layers are none or none of them can be constructed it is the
\* two-layer network: a hidden dense layer and a linear dense output layer.
C29_FallbackTwoLayers ==
    (unitOp \in {"build", "createModel"} /\ ~built.threw) =>
        /\ Len(built.layers) >= 1
        /\ LET constructible == IF built.by = "page"
                                THEN AddLayers(layers, Len(layers))
                                ELSE AddDenseLayers(modelConfigValue.layers,
                                                    Len(modelConfigValue.layers))
           IN  Len(constructible) = 0 =>
                   /\ Len(built.layers) = 2
                   /\ built.layers[1].kind = "dense"
                   /\ built.layers[2].kind = "dense"
                   /\ built.layers[2].activation = "linear"

\* the epoch count carried by a command of the current run that the accepted
\* start has queued for the worker
RunEpochs ==
    {workers'[worker'].inbox[k].epochs :
        k \in {j \in 1..Len(workers'[worker'].inbox) :
                  /\ workers'[worker'].inbox[j].run = run'
                  /\ workers'[worker'].inbox[j].epochs > 0}}

\* C31: once a start is accepted totalEpochs is the epoch count configured for
\* that run, and it does not change while the run goes on, whatever is done to
\* the training configuration in the meantime.
C31_TotalEpochsFixed ==
    [][/\ StartAccepted => totalEpochs' \in RunEpochs
       /\ (run' = run /\ run > 0
           /\ trainingState \in {"training", "paused"}) => totalEpochs' = totalEpochs]_vars

\* a live worker is inside model.fit
EpochInFlight == \E id \in WorkerIds : workers[id].alive /\ Fitting(workers[id])

\* C32: the speed changes only while no epoch is in flight in a worker, and a
\* change of the speed leaves every worker, its running epoch included, as it is.
C32_SpeedChangesBetweenEpochs ==
    [][speed' # speed => (~EpochInFlight /\ workers' = workers)]_vars

InvalidDataset ==
    trainingDataset.xs = 0 \/ trainingDataset.ys = 0 \/ trainingDataset.xs # trainingDataset.ys

\* C33: while the store's dataset has no rows in xs or in ys, or has not as
\* many in the one as in the other, the store is never in training and no
\* worker runs an epoch.
C33_InvalidDatasetNeverTrains ==
    InvalidDataset => (trainingState # "training" /\ ~EpochInFlight)

\* C34: when the activations of the layers have been extracted, a layer whose
\* extraction failed has a placeholder entry in the result and every layer
\* whose extraction succeeded has its data there, also after a failed layer.
C34_FailedLayerKeepsPlace ==
    activations.op # "none" =>
        \A i \in 1..Len(activations.outcomes) :
            \E k \in 1..Len(activations.result) :
                /\ activations.result[k].layerId = i - 1
                /\ activations.result[k].filled = "data" <=> activations.outcomes[i] = "ok"

\* the invocations of a worker that are inside model.fit
FitTasks(w) == {i \in 1..Len(w.tasks) : w.tasks[i].pc \in FitPcs /\ ~w.tasks[i].dead}

\* C35: a worker never has more than one invocation of its training loop
\* under way, and never more than one invocation inside model.fit.
C35_OneLoopPerWorker ==
    \A id \in WorkerIds :
        /\ Cardinality(LoopTasks(workers[id])) <= 1
        /\ Cardinality(FitTasks(workers[id])) <= 1

\* in SpecStop: the stop has been issued, and no start is accepted after it
StopIssued == cmds = limit

\* C36: from the stop on the training state is idle, both counters are 0 and
\* the metrics are empty, and no step, the delivery of a worker message that
\* was in flight included, changes any of them.
C36_NothingAppliedAfterStop ==
    /\ [](StopIssued => /\ trainingState = "idle"
                        /\ currentEpoch = 0
                        /\ currentBatch = 0
                        /\ trainingMetrics = <<>>)
    /\ [][StopIssued =>
            UNCHANGED <<trainingState, currentEpoch, currentBatch, trainingMetrics>>]_vars

\* a start is issued right after the stop of a run, with dataset and model
\* config present
StartAfterStop == StartIssued /\ lastOp = "stopTraining" /\ run > 0 /\ ~ConfigAbsent

\* C37: a start issued after the stop of a run, with dataset and model config
\* present, is accepted: the oscar-store is in training on a live worker when
\* the call returns, and the training-store has taken the call up and is
\* waiting for its timers.
C37_StartAfterStopAccepted ==
    [][StartAfterStop =>
          IF impl = "oscar"
          THEN /\ StartAccepted
               /\ trainingState' = "training"
               /\ worker' # NoWorker
               /\ workers'[worker'].alive
          ELSE Len(starts') = Len(starts) + 1]_vars

\* the workers that run and whose messages the store's handler applies
LiveWorkers == {id \in WorkerIds : workers[id].alive}

\* C38: at most one worker is alive and attached to the store at any time, and
\* it is the one the store holds.
C38_OneLiveWorker ==
    /\ Cardinality(LiveWorkers) <= 1
    /\ LiveWorkers \subseteq {worker}

\* the store takes an error message from worker id
ErrorReceived(id) ==
    /\ workers[id].outbox # <<>>
    /\ Head(workers[id].outbox).type = "error"
    /\ workers'[id].outbox = Tail(workers[id].outbox)
    /\ lastOp' = "onmessage:error"

\* C39: when the store takes an error message from a worker, the error text it
\* records is the text the worker put into the message.
C39_ErrorTextIsWorkersText ==
    [][\A id \in WorkerIds :
          ErrorReceived(id) => lastError' = Head(workers[id].outbox).info]_vars

\* the messages that end an invocation of the loop, and those of an epoch
Terminal == {"complete", "paused", "error"}
EpochMessages == {"progress", "metrics", "predictions"}
Terminals(w) == {k \in 1..Len(w.outbox) : w.outbox[k].type \in Terminal}
\* worker id has posted messages in this step
Posted(id) == /\ lastOp' = "worker"
              /\ workers[id].alive
              /\ workers'[id].outbox # workers[id].outbox

\* C40: a step of the worker posts at most one complete, paused or error
\* message, and the invocation that posts one ends with it; and among the
\* messages a worker has posted, none of an epoch follows the complete
\* message of its own run.
C40_CompleteIsLast ==
    /\ [][\A id \in WorkerIds : Posted(id) =>
             /\ Cardinality(Terminals(workers'[id])) <= Cardinality(Terminals(workers[id])) + 1
             /\ Cardinality(Terminals(workers'[id])) > Cardinality(Terminals(workers[id]))
                   => Len(workers'[id].tasks) <= Len(workers[id].tasks)]_vars
    /\ [](\A id \in WorkerIds : \A j, k \in 1..Len(workers[id].outbox) :
             (j < k /\ workers[id].outbox[j].type = "complete"
                   /\ workers[id].outbox[k].type \in EpochMessages)
                 => workers[id].outbox[j].run # workers[id].outbox[k].run)

====
